---------------------------- MODULE Spec2Model ----------------------------
(***************************************************************************)
(* The streaming decoders of libreeb (EVT2, EVT2.1, EVT3) and the framed   *)
(* reader, as state machines over a finite byte stream.                    *)
(*                                                                         *)
(* The byte source is the pair (stream, pos): the bytes of the file after  *)
(* the header and the number of bytes the reader has handed out so far.    *)
(* Every loop iteration of a decoder's next() is one action; an iteration  *)
(* that returns records the returned value in ret and, for Some(event),    *)
(* appends the event to out.  Each queued event carries the stream offset  *)
(* of the last byte of the word that produced it (field o), so that the    *)
(* output can be related to the input words.                               *)
(***************************************************************************)
EXTENDS Integers, Sequences, FiniteSets, TLC

VARIABLES
    fmt,                \* which decoder runs on the stream
    stream,             \* the bytes of the stream, in order
    pos,                \* bytes the byte source has delivered so far
    event_queue,        \* decoded events not yet returned
    time,               \* EVT3: last reconstructed timestamp
    time_base,          \* EVT3: Option<u64>, the shifted time high
    time_high_loop_nb,  \* EVT3: wraps of the 24-bit time high
    polarity,           \* EVT3: polarity of the last VECT_BASE_X
    x,                  \* EVT3: vector cursor
    y,                  \* EVT3: last addressed row
    overflow_byte,      \* EVT3: Option<u8>, odd byte of the last read
    time_high,          \* EVT2, EVT2.1: Option<u64>, the shifted time high
    buffer,             \* EVT2.1: buffer.0[..read_buffer_cursor], bytes read and not yet decoded
    read_buffer_cursor, \* EVT2.1: fill level of buffer
    evts,               \* the bytes of the slice being decoded (buffer.0[..size])
    evts_at,            \* offset in the stream of the first byte of evts
    idx,                \* words of evts already decoded
    ret,                \* value returned by the last next() that returned
    out,                \* the events returned so far, in order
    panicked,           \* an unwrap() failed: the thread is unwinding
    input,              \* the argument of a library function under study
    result,             \* Option: what that function returned
    resets,             \* for each reset() so far, the events returned before it
    parked,             \* Option: the fields of a second decoder instance, not running
    handles             \* for each read_events() so far, the events returned and queued before it

vars == <<fmt, stream, pos, event_queue, time, time_base, time_high_loop_nb,
          polarity, x, y, overflow_byte, time_high, buffer, read_buffer_cursor,
          evts, evts_at, idx, ret, out, panicked, input, result, resets, parked, handles>>

(* The fields of Evt3DecoderCore and those of Evt21DecoderCore / Evt2Decoder *)
vars3 == <<time, time_base, time_high_loop_nb, polarity, x, y, overflow_byte>>
vars21 == <<time_high, buffer, read_buffer_cursor>>

(* What the decoders never touch *)
varsLib == <<input, result, resets, parked, handles>>

---------------------------------------------------------------------------
(* Option<T> *)
None == [some |-> FALSE]
Some(v) == [some |-> TRUE, v |-> v]

(* lib.rs Event, with the fields the decoders give each variant *)
CD(ex, ey, ep, et) == [k |-> "CD", x |-> ex, y |-> ey, p |-> ep, t |-> et]
ExternalTrigger(id, ep) == [k |-> "ExternalTrigger", id |-> id, p |-> ep]
Unknown == [k |-> "Unknown"]

(* lib.rs Event::ExternalTrigger as the enum declares it *)
ExternalTriggerAt(id, ep, et) ==
    [k |-> "ExternalTrigger", id |-> id, p |-> ep, t |-> et]

(* A queued event and the offset in the stream where its word ends *)
At(o, e) == [ev |-> e, o |-> o]

Min(a, b) == IF a < b THEN a ELSE b

RECURSIVE Pow2(_)
Pow2(n) == IF n = 0 THEN 1 ELSE 2 * Pow2(n - 1)

---------------------------------------------------------------------------
(* The byte source (R: Read) *)

Avail == Len(stream) - pos

(* Counts a read() into a buffer of cap bytes may return: 0 only at the end *)
(* of the stream, otherwise any count the source chooses.                   *)
ReadCounts(cap) == IF Avail = 0 \/ cap = 0 THEN {0} ELSE 1..Min(Avail, cap)

---------------------------------------------------------------------------
(* EVT3 *)

EVT_ADDR_Y == 0
EVT_ADDR_X == 2
VECT_BASE_X == 3
VECT_12 == 4
VECT_8 == 5
EVT_TIME_LOW == 6
EVT_TIME_HIGH == 8
EXT_TRIGGER == 10

MAX_TIMESTAMP_BASE == (Pow2(12) - 1) * Pow2(12)
TIME_LOOP_DURATION_US == MAX_TIMESTAMP_BASE + Pow2(12)
(* A guard band of 5 time high steps *)
LOOP_THRESHOLD_narrow == 5 * Pow2(12)

LOOP_THRESHOLD == 10 * Pow2(12)
READ_BUFFER_SIZE == 512

(* Evt3Word: a u16 cast from two little-endian bytes *)
Evt3Word(b, i) == b[i] + 256 * b[i + 1]

Evt3_event_type(data) == (data \div 4096) % 16
Evt3_y(data) == data % 2048
Evt3_x(data) == data % 2048
(* Evt3_pol without the & 0x1 *)
Evt3_pol_wide(data) == data \div 2048

Evt3_pol(data) == (data \div 2048) % 2
Evt3_time(data) == data % 4096
Evt3_valid(data) == data % 4096
Evt3_trigger_id(data) == (data \div 256) % 16
Evt3_trigger_polarity(data) == data % 2

(* The decoder fields a word can change *)
Evt3State == [time |-> time, time_base |-> time_base,
              time_high_loop_nb |-> time_high_loop_nb,
              polarity |-> polarity, x |-> x, y |-> y]

(* handle_vect!: the loop over i in state.x..end *)
RECURSIVE VectLoop(_, _, _, _, _)
VectLoop(s, i, end, valid_bits, acc) ==
    IF i >= end THEN acc
    ELSE VectLoop(s, i + 1, end, valid_bits \div 2,
                  IF valid_bits % 2 = 1
                  THEN Append(acc, CD(i, s.y, s.polarity, s.time))
                  ELSE acc)

(* state.x + vect_size does not fit the u16 it is computed in *)
VectOverflows(s, vect_size) == s.x + vect_size > 65535

(* handle_vect!, with the sum as a build without overflow checks leaves it *)
handle_vect(s, valid, vect_size) ==
    LET end == (s.x + vect_size) % 65536
    IN  [s |-> [s EXCEPT !.x = end],
         ev |-> VectLoop(s, s.x, end, valid, <<>>)]

EvtAddrY(s, data) == [s |-> [s EXCEPT !.y = Evt3_y(data)], ev |-> <<>>]

EvtAddrX(s, data) ==
    [s |-> s, ev |-> <<CD(Evt3_x(data), s.y, Evt3_pol(data), s.time)>>]

VectBaseX(s, data) ==
    [s |-> [s EXCEPT !.polarity = Evt3_pol(data), !.x = Evt3_x(data)],
     ev |-> <<>>]

(* EvtTimeLow adding the time low to the time instead of the time base *)
EvtTimeLow_acc(s, data) ==
    [s |-> [s EXCEPT !.time = s.time + Evt3_time(data)], ev |-> <<>>]

EvtTimeLow(s, data) ==
    [s |-> [s EXCEPT !.time = s.time_base.v + Evt3_time(data)], ev |-> <<>>]

(* WrapDetected with > for >= *)
WrapDetected_gt(old_base, new_time_high) ==
    /\ old_base > new_time_high
    /\ old_base - new_time_high > MAX_TIMESTAMP_BASE - LOOP_THRESHOLD

WrapDetected(old_base, new_time_high) ==
    /\ old_base > new_time_high
    /\ old_base - new_time_high >= MAX_TIMESTAMP_BASE - LOOP_THRESHOLD

(* EvtTimeHigh adding MAX_TIMESTAMP_BASE for TIME_LOOP_DURATION_US on a wrap *)
EvtTimeHigh_max(s, data) ==
    LET old_base == s.time_base.v
        cand == Evt3_time(data) * 4096
                  + s.time_high_loop_nb * TIME_LOOP_DURATION_US
        wrap == WrapDetected(old_base, cand)
        new_time_high == IF wrap THEN cand + MAX_TIMESTAMP_BASE ELSE cand
    IN  [s |-> [s EXCEPT !.time_high_loop_nb = IF wrap THEN @ + 1 ELSE @,
                         !.time_base = Some(new_time_high),
                         !.time = old_base],
         ev |-> <<>>]

(* EvtTimeHigh with a candidate that leaves the counted wraps out *)
EvtTimeHigh_noloops(s, data) ==
    LET old_base == s.time_base.v
        cand == Evt3_time(data) * 4096
        wrap == WrapDetected(old_base, cand)
        new_time_high == IF wrap THEN cand + TIME_LOOP_DURATION_US ELSE cand
    IN  [s |-> [s EXCEPT !.time_high_loop_nb = IF wrap THEN @ + 1 ELSE @,
                         !.time_base = Some(new_time_high),
                         !.time = old_base],
         ev |-> <<>>]

(* EvtTimeHigh never letting the time base go down *)
EvtTimeHigh_monotone(s, data) ==
    LET old_base == s.time_base.v
        cand == Evt3_time(data) * 4096
                  + s.time_high_loop_nb * TIME_LOOP_DURATION_US
        wrap == WrapDetected(old_base, cand)
        new_time_high == IF wrap THEN cand + TIME_LOOP_DURATION_US
                         ELSE IF cand < old_base THEN old_base ELSE cand
    IN  [s |-> [s EXCEPT !.time_high_loop_nb = IF wrap THEN @ + 1 ELSE @,
                         !.time_base = Some(new_time_high),
                         !.time = old_base],
         ev |-> <<>>]

EvtTimeHigh(s, data) ==
    LET old_base == s.time_base.v
        cand == Evt3_time(data) * 4096
                  + s.time_high_loop_nb * TIME_LOOP_DURATION_US
        wrap == WrapDetected(old_base, cand)
        new_time_high == IF wrap THEN cand + TIME_LOOP_DURATION_US ELSE cand
    IN  [s |-> [s EXCEPT !.time_high_loop_nb = IF wrap THEN @ + 1 ELSE @,
                         !.time_base = Some(new_time_high),
                         !.time = old_base],
         ev |-> <<>>]

(* EXT_TRIGGER: the word path reads the fields, the full-buffer path does not *)
ExtTrigger3(s, data, simd) ==
    [s |-> s,
     ev |-> <<IF simd THEN ExternalTrigger(0, 0)
              ELSE ExternalTrigger(Evt3_trigger_id(data),
                                   Evt3_trigger_polarity(data))>>]

(* Evt3Decode with a default arm that also clears the time *)
Evt3Decode_resync(s, data, simd) ==
    LET ty == Evt3_event_type(data)
    IN  CASE ty = EVT_ADDR_Y -> EvtAddrY(s, data)
          [] ty = EVT_ADDR_X -> EvtAddrX(s, data)
          [] ty = VECT_BASE_X -> VectBaseX(s, data)
          [] ty = VECT_12 -> handle_vect(s, Evt3_valid(data), 12)
          [] ty = VECT_8 -> handle_vect(s, Evt3_valid(data), 8)
          [] ty = EVT_TIME_LOW -> EvtTimeLow(s, data)
          [] ty = EVT_TIME_HIGH -> EvtTimeHigh(s, data)
          [] ty = EXT_TRIGGER -> ExtTrigger3(s, data, simd)
          [] OTHER -> [s |-> [s EXCEPT !.time = 0], ev |-> <<Unknown>>]

(* The match on the event type, in either path of next() *)
Evt3Decode(s, data, simd) ==
    LET ty == Evt3_event_type(data)
    IN  CASE ty = EVT_ADDR_Y -> EvtAddrY(s, data)
          [] ty = EVT_ADDR_X -> EvtAddrX(s, data)
          [] ty = VECT_BASE_X -> VectBaseX(s, data)
          [] ty = VECT_12 -> handle_vect(s, Evt3_valid(data), 12)
          [] ty = VECT_8 -> handle_vect(s, Evt3_valid(data), 8)
          [] ty = EVT_TIME_LOW -> EvtTimeLow(s, data)
          [] ty = EVT_TIME_HIGH -> EvtTimeHigh(s, data)
          [] ty = EXT_TRIGGER -> ExtTrigger3(s, data, simd)
          [] OTHER -> [s |-> s, ev |-> <<Unknown>>]

(* Tag the events a word pushed with the offset where the word ends *)
Tagged(o, evs) == [i \in 1..Len(evs) |-> At(o, evs[i])]

Decoding == evts # <<>>
AtLoopTop == ~panicked /\ ~Decoding

(* Evt3Pop taking the back of the queue *)
Evt3Pop_back ==
    /\ fmt = "EVT3" /\ AtLoopTop
    /\ event_queue # <<>>
    /\ ret' = Some(event_queue[Len(event_queue)].ev)
    /\ out' = Append(out, event_queue[Len(event_queue)])
    /\ event_queue' = SubSeq(event_queue, 1, Len(event_queue) - 1)
    /\ UNCHANGED <<varsLib, fmt, stream, pos, vars3, vars21, evts, evts_at, idx, panicked>>

(* next(): the queue is not empty, return its front *)
Evt3Pop ==
    /\ fmt = "EVT3" /\ AtLoopTop
    /\ event_queue # <<>>
    /\ ret' = Some(Head(event_queue).ev)
    /\ out' = Append(out, Head(event_queue))
    /\ event_queue' = Tail(event_queue)
    /\ UNCHANGED <<varsLib, fmt, stream, pos, vars3, vars21, evts, evts_at, idx, panicked>>

(* next(): the time base is not set; one read_exact of the search loop *)
Evt3FindTimeBase ==
    /\ fmt = "EVT3" /\ AtLoopTop
    /\ event_queue = <<>>
    /\ ~time_base.some
    /\ IF Avail >= 2
       THEN LET evt == Evt3Word(stream, pos + 1)
            IN  /\ pos' = pos + 2
                /\ time_base' = IF Evt3_event_type(evt) = EVT_TIME_HIGH
                                THEN Some(Evt3_time(evt) * 4096)
                                ELSE time_base
                /\ UNCHANGED panicked
       ELSE /\ pos' = Len(stream)
            /\ panicked' = TRUE
            /\ UNCHANGED time_base
    /\ UNCHANGED <<varsLib, fmt, stream, event_queue, time, time_high_loop_nb,
                   polarity, x, y, overflow_byte, vars21, evts, evts_at, idx,
                   ret, out>>

(* StreamEnded taking a read of one byte for the end of the stream *)
StreamEnded_short(n) == n <= 1

(* if n == 0 { return None; } *)
StreamEnded(n) == n = 0

(* Evt3ReadN without the test of the queue: a refill at every iteration *)
Evt3ReadN_refill(n) ==
    /\ fmt = "EVT3" /\ AtLoopTop
    /\ time_base.some
    /\ IF StreamEnded(n)
       THEN /\ ret' = None
            /\ UNCHANGED <<pos, overflow_byte, evts, evts_at>>
       ELSE /\ pos' = pos + n
            /\ UNCHANGED ret
            /\ IF overflow_byte.some
               THEN /\ evts' = <<overflow_byte.v, stream[pos + 1]>>
                    /\ evts_at' = pos - 1
                    /\ overflow_byte' = None
               ELSE /\ overflow_byte' = IF n % 2 # 0
                                        THEN Some(stream[pos + n])
                                        ELSE None
                    /\ evts' = SubSeq(stream, pos + 1, pos + n - (n % 2))
                    /\ evts_at' = pos
    /\ idx' = 0
    /\ UNCHANGED <<varsLib, fmt, stream, event_queue, time, time_base,
                   time_high_loop_nb, polarity, x, y, vars21, out, panicked>>

(* next(): the queue is empty and the time base is set; the read returns n *)
Evt3ReadN(n) ==
    /\ fmt = "EVT3" /\ AtLoopTop
    /\ event_queue = <<>>
    /\ time_base.some
    /\ IF StreamEnded(n)
       THEN /\ ret' = None
            /\ UNCHANGED <<pos, overflow_byte, evts, evts_at>>
       ELSE /\ pos' = pos + n
            /\ UNCHANGED ret
            /\ IF overflow_byte.some
               THEN /\ evts' = <<overflow_byte.v, stream[pos + 1]>>
                    /\ evts_at' = pos - 1
                    /\ overflow_byte' = None
               ELSE /\ overflow_byte' = IF n % 2 # 0
                                        THEN Some(stream[pos + n])
                                        ELSE None
                    /\ evts' = SubSeq(stream, pos + 1, pos + n - (n % 2))
                    /\ evts_at' = pos
    /\ idx' = 0
    /\ UNCHANGED <<varsLib, fmt, stream, event_queue, time, time_base,
                   time_high_loop_nb, polarity, x, y, vars21, out, panicked>>

(* The size of the slice the read of EVT3 is given *)
Evt3ReadCap == IF overflow_byte.some THEN 1 ELSE READ_BUFFER_SIZE

(* next(): read a chunk, of any count the source returns *)
Evt3Read == \E n \in ReadCounts(Evt3ReadCap) : Evt3ReadN(n)

(* Offset in the stream of the last byte of the word of evts being decoded *)
WordEnd(word_size) == evts_at + word_size * (idx + 1)

(* next(): decode the next word of the chunk *)
(* The word is a VECT_12 or VECT_8 whose handle_vect! overflows *)
Evt3WordOverflows(s, data) ==
    \/ Evt3_event_type(data) = VECT_12 /\ VectOverflows(s, 12)
    \/ Evt3_event_type(data) = VECT_8 /\ VectOverflows(s, 8)

(* One word of the chunk through the match. An overflowing sum in          *)
(* handle_vect! panics in a build with overflow checks and wraps in one    *)
(* without.                                                                *)
Evt3DecodeWord ==
    /\ fmt = "EVT3" /\ ~panicked /\ Decoding
    /\ LET data == Evt3Word(evts, 2 * idx + 1)
           r == Evt3Decode(Evt3State, data, Len(evts) = READ_BUFFER_SIZE)
       IN  \/ /\ time' = r.s.time
              /\ time_base' = r.s.time_base
              /\ time_high_loop_nb' = r.s.time_high_loop_nb
              /\ polarity' = r.s.polarity
              /\ x' = r.s.x
              /\ y' = r.s.y
              /\ event_queue' = event_queue \o Tagged(WordEnd(2), r.ev)
              /\ IF 2 * (idx + 1) = Len(evts)
                 THEN evts' = <<>> /\ idx' = 0
                 ELSE idx' = idx + 1 /\ UNCHANGED evts
              /\ UNCHANGED panicked
           \/ /\ Evt3WordOverflows(Evt3State, data)
              /\ panicked' = TRUE
              /\ UNCHANGED <<time, time_base, time_high_loop_nb, polarity, x, y,
                             event_queue, evts, idx>>
    /\ UNCHANGED <<varsLib, fmt, stream, pos, overflow_byte, vars21, evts_at, ret, out>>

Next3 == Evt3Pop \/ Evt3FindTimeBase \/ Evt3Read \/ Evt3DecodeWord

---------------------------------------------------------------------------
(* EVT2.1 *)

EVT_NEG == 0
EVT_POS == 1

(* u64 | u64 on naturals *)
RECURSIVE BitOr(_, _)
BitOr(a, b) ==
    IF a = 0 THEN b
    ELSE IF b = 0 THEN a
    ELSE (IF a % 2 = 1 \/ b % 2 = 1 THEN 1 ELSE 0) + 2 * BitOr(a \div 2, b \div 2)

(* Evt21Word: a u64 cast from eight little-endian bytes; data[1] holds     *)
(* bits 7..0 and data[8] bits 63..56.                                       *)
Evt21Word(b, i) == SubSeq(b, i, i + 7)

Evt21_event_type(data) == data[8] \div 16
(* Evt21_time_high with a mask of 24 bits for the 28 *)
Evt21_time_high_24(data) == (data[5] + 256 * data[6] + 65536 * data[7]) * 64

Evt21_time_high(data) ==
    (data[5] + 256 * data[6] + 65536 * data[7] + 16777216 * (data[8] % 16)) * 64
Evt21_time_low(data) == (data[7] \div 64) + 4 * (data[8] % 16)
Evt21_x(data) == (data[6] \div 8) + 32 * (data[7] % 64)
Evt21_y(data) == data[5] + 256 * (data[6] % 8)
(* Evt21_valid_mask keeping the low 16 bits only *)
Evt21_valid_mask_u16(data) == <<data[1] + 256 * data[2], 0>>

(* the u32 mask as its two 16-bit halves <<bits 15..0, bits 31..16>> *)
Evt21_valid_mask(data) == <<data[1] + 256 * data[2], data[3] + 256 * data[4]>>
Evt21_trigger_channel_id(data) == data[6] % 32
Evt21_trigger_value(data) == data[5] % 2

RECURSIVE trailing_zeros16(_)
trailing_zeros16(v) == IF v % 2 = 1 THEN 0 ELSE 1 + trailing_zeros16(v \div 2)

(* u32::trailing_zeros of a mask that is not 0 *)
trailing_zeros(mask) ==
    IF mask[1] # 0 THEN trailing_zeros16(mask[1])
    ELSE 16 + trailing_zeros16(mask[2])

(* mask & (mask - 1) *)
ClearLowestSetBit(mask) ==
    IF mask[1] # 0
    THEN <<mask[1] - Pow2(trailing_zeros16(mask[1])), mask[2]>>
    ELSE <<0, mask[2] - Pow2(trailing_zeros16(mask[2]))>>

(* while mask != 0 { ... push_back(Event::CD {...}) } *)
RECURSIVE MaskLoop(_, _, _, _)
MaskLoop(data, full_timestamp, mask, acc) ==
    IF mask = <<0, 0>> THEN acc
    ELSE MaskLoop(data, full_timestamp, ClearLowestSetBit(mask),
                  Append(acc, CD(Evt21_x(data) + trailing_zeros(mask),
                                 Evt21_y(data), Evt21_event_type(data),
                                 full_timestamp)))

EvtNegPos(th, data) ==
    [th |-> th,
     ev |-> MaskLoop(data, BitOr(th.v, Evt21_time_low(data)),
                     Evt21_valid_mask(data), <<>>)]

ExtTrigger21(th, data) ==
    [th |-> th,
     ev |-> <<ExternalTrigger(Evt21_trigger_channel_id(data),
                              Evt21_trigger_value(data))>>]

(* The match on the event type; th is self.time_high *)
Evt21Decode(th, data) ==
    LET ty == Evt21_event_type(data)
    IN  CASE ty \in {EVT_NEG, EVT_POS} -> EvtNegPos(th, data)
          [] ty = EVT_TIME_HIGH -> [th |-> Some(Evt21_time_high(data)), ev |-> <<>>]
          [] ty = EXT_TRIGGER -> ExtTrigger21(th, data)
          [] OTHER -> [th |-> th, ev |-> <<Unknown>>]

Evt21Pop ==
    /\ fmt = "EVT21" /\ AtLoopTop
    /\ event_queue # <<>>
    /\ ret' = Some(Head(event_queue).ev)
    /\ out' = Append(out, Head(event_queue))
    /\ event_queue' = Tail(event_queue)
    /\ UNCHANGED <<varsLib, fmt, stream, pos, vars3, vars21, evts, evts_at, idx, panicked>>

(* next(): the time base is not set; read_exact one word and continue *)
Evt21FindTimeHigh ==
    /\ fmt = "EVT21" /\ AtLoopTop
    /\ event_queue = <<>>
    /\ ~time_high.some
    /\ IF Avail >= 8
       THEN LET evt == Evt21Word(stream, pos + 1)
            IN  /\ pos' = pos + 8
                /\ time_high' = IF Evt21_event_type(evt) = EVT_TIME_HIGH
                                THEN Some(Evt21_time_high(evt))
                                ELSE time_high
                /\ UNCHANGED panicked
       ELSE /\ pos' = Len(stream)
            /\ panicked' = TRUE
            /\ UNCHANGED time_high
    /\ UNCHANGED <<varsLib, fmt, stream, event_queue, vars3, buffer, read_buffer_cursor,
                   evts, evts_at, idx, ret, out>>

(* Decoding after every read *)
KeepReading_never(bytes_read, cursor) == FALSE

(* The buffer is not full and the stream has not ended: continue *)
KeepReading(bytes_read, cursor) == bytes_read > 0 /\ cursor # READ_BUFFER_SIZE

(* next(): fill the read buffer with the bytes_read bytes the read returns; *)
(* decode it once it is full or the stream ended                           *)
Evt21ReadN(bytes_read) ==
    /\ fmt = "EVT21" /\ AtLoopTop
    /\ event_queue = <<>>
    /\ time_high.some
    /\ IF bytes_read = 0 /\ read_buffer_cursor = 0
       THEN /\ ret' = None
            /\ UNCHANGED <<pos, buffer, read_buffer_cursor, evts, evts_at>>
       ELSE LET cursor == read_buffer_cursor + bytes_read
                filled == buffer \o SubSeq(stream, pos + 1, pos + bytes_read)
                size == cursor - (cursor % 8)
            IN  /\ pos' = pos + bytes_read
                /\ UNCHANGED ret
                /\ IF KeepReading(bytes_read, cursor)
                   THEN /\ read_buffer_cursor' = cursor
                        /\ buffer' = filled
                        /\ UNCHANGED <<evts, evts_at>>
                   ELSE /\ evts' = SubSeq(filled, 1, size)
                        /\ evts_at' = pos + bytes_read - cursor
                        /\ read_buffer_cursor' = 0
                        /\ buffer' = <<>>
    /\ idx' = 0
    /\ UNCHANGED <<varsLib, fmt, stream, event_queue, vars3, time_high, out, panicked>>

Evt21Read ==
    \E bytes_read \in ReadCounts(READ_BUFFER_SIZE - read_buffer_cursor) :
        Evt21ReadN(bytes_read)

Evt21DecodeWord ==
    /\ fmt = "EVT21" /\ ~panicked /\ Decoding
    /\ LET data == Evt21Word(evts, 8 * idx + 1)
           r == Evt21Decode(time_high, data)
       IN  /\ time_high' = r.th
           /\ event_queue' = event_queue \o Tagged(WordEnd(8), r.ev)
    /\ IF 8 * (idx + 1) = Len(evts)
       THEN evts' = <<>> /\ idx' = 0
       ELSE idx' = idx + 1 /\ UNCHANGED evts
    /\ UNCHANGED <<varsLib, fmt, stream, pos, vars3, buffer, read_buffer_cursor, evts_at,
                   ret, out, panicked>>

Next21 == Evt21Pop \/ Evt21FindTimeHigh \/ Evt21Read \/ Evt21DecodeWord

---------------------------------------------------------------------------
(* EvtReader<R, D>, with D the EVT2.1 decoder *)

(* D::decode on one word.  The implementations of EventDecoder::decode are  *)
(* not part of the sources; this one follows the format's description: the  *)
(* words that need the time base are dropped until it is set, the others    *)
(* decode as in Evt21Decode.                                                *)
DecoderDecode(th, data) ==
    IF ~th.some /\ Evt21_event_type(data) \in {EVT_NEG, EVT_POS, EXT_TRIGGER}
    THEN [th |-> th, ev |-> <<>>]
    ELSE Evt21Decode(th, data)

EvtReaderPop ==
    /\ fmt = "READER" /\ AtLoopTop
    /\ event_queue # <<>>
    /\ ret' = Some(Head(event_queue).ev)
    /\ out' = Append(out, Head(event_queue))
    /\ event_queue' = Tail(event_queue)
    /\ UNCHANGED <<varsLib, fmt, stream, pos, vars3, vars21, evts, evts_at, idx, panicked>>

(* next(): fill the read buffer; hand it to the decoder once it is full or *)
(* the stream ended                                                        *)
EvtReaderRead ==
    /\ fmt = "READER" /\ AtLoopTop
    /\ event_queue = <<>>
    /\ \E bytes_read \in ReadCounts(READ_BUFFER_SIZE - read_buffer_cursor) :
         IF bytes_read = 0 /\ read_buffer_cursor = 0
         THEN /\ ret' = None
              /\ UNCHANGED <<pos, buffer, read_buffer_cursor, evts, evts_at>>
         ELSE LET cursor == read_buffer_cursor + bytes_read
                  filled == buffer \o SubSeq(stream, pos + 1, pos + bytes_read)
                  size == cursor - (cursor % 8)
              IN  /\ pos' = pos + bytes_read
                  /\ UNCHANGED ret
                  /\ IF KeepReading(bytes_read, cursor)
                     THEN /\ read_buffer_cursor' = cursor
                          /\ buffer' = filled
                          /\ UNCHANGED <<evts, evts_at>>
                     ELSE /\ evts' = SubSeq(filled, 1, size)
                          /\ evts_at' = pos + bytes_read - cursor
                          /\ read_buffer_cursor' = 0
                          /\ buffer' = <<>>
    /\ idx' = 0
    /\ UNCHANGED <<varsLib, fmt, stream, event_queue, vars3, time_high, out, panicked>>

(* self.decoder.decode(evts, &mut self.event_queue), one word at a time *)
EvtReaderDecodeWord ==
    /\ fmt = "READER" /\ ~panicked /\ Decoding
    /\ LET data == Evt21Word(evts, 8 * idx + 1)
           r == DecoderDecode(time_high, data)
       IN  /\ time_high' = r.th
           /\ event_queue' = event_queue \o Tagged(WordEnd(8), r.ev)
    /\ IF 8 * (idx + 1) = Len(evts)
       THEN evts' = <<>> /\ idx' = 0
       ELSE idx' = idx + 1 /\ UNCHANGED evts
    /\ UNCHANGED <<varsLib, fmt, stream, pos, vars3, buffer, read_buffer_cursor, evts_at,
                   ret, out, panicked>>

NextReader == EvtReaderPop \/ EvtReaderRead \/ EvtReaderDecodeWord

---------------------------------------------------------------------------
(* EVT2 *)

(* Bit j of a little-endian byte sequence *)
Bit(value, j) == (value[(j \div 8) + 1] \div Pow2(j % 8)) % 2

RECURSIVE BitsValue(_, _, _, _)
BitsValue(value, width, start, len) ==
    IF len = 0 THEN 0
    ELSE (IF start < width THEN Bit(value, start) ELSE 0)
           + 2 * BitsValue(value, width, start + 1, len - 1)

(* extract_bits!, for len < width: the mask ((1 << len) - 1) << start     *)
(* keeps the bits start..start+len-1 that lie inside the storage, and the  *)
(* cast keeps the low tbits bits.                                          *)
extract_bits(value, width, tbits, start, len) ==
    LET extracted == BitsValue(value, width, start, len)
    IN  IF tbits >= len THEN extracted ELSE extracted % Pow2(tbits)

(* Evt2::from(&[u8]): the variant and its fields *)
Evt2From(bytes) ==
    LET event_type == extract_bits(bytes, 32, 16, 28, 4)
    IN  CASE event_type = 0 ->
               [variant |-> "CDoff",
                timestamp |-> extract_bits(bytes, 32, 16, 22, 6),
                x |-> extract_bits(bytes, 32, 16, 11, 11),
                y |-> extract_bits(bytes, 32, 16, 0, 11)]
          [] event_type = 1 ->
               [variant |-> "CDon",
                timestamp |-> extract_bits(bytes, 32, 16, 22, 6),
                x |-> extract_bits(bytes, 32, 16, 21, 11),
                y |-> extract_bits(bytes, 32, 16, 0, 11)]
          [] event_type = 8 ->
               [variant |-> "EvtTimeHigh",
                timestamp |-> extract_bits(bytes, 32, 32, 0, 28)]
          [] event_type = 10 ->
               [variant |-> "ExtTrigger",
                timestamp |-> extract_bits(bytes, 32, 16, 22, 6),
                id |-> extract_bits(bytes, 32, 8, 8, 5),
                polarity |-> extract_bits(bytes, 32, 8, 0, 1)]
          [] OTHER -> [variant |-> "Unknown"]

(* The match on the raw event: the new time_high and the decoded event *)
Evt2Decode(th, raw_event) ==
    CASE raw_event.variant = "CDon" ->
           [th |-> th,
            ev |-> IF th.some
                   THEN Some(CD(raw_event.x, raw_event.y, 1,
                                BitOr(th.v, raw_event.timestamp)))
                   ELSE None]
      [] raw_event.variant = "CDoff" ->
           [th |-> th,
            ev |-> IF th.some
                   THEN Some(CD(raw_event.x, raw_event.y, 0,
                                BitOr(th.v, raw_event.timestamp)))
                   ELSE None]
      [] raw_event.variant = "EvtTimeHigh" ->
           [th |-> Some(raw_event.timestamp * 64), ev |-> None]
      [] raw_event.variant = "ExtTrigger" ->
           [th |-> th,
            ev |-> Some(ExternalTrigger(raw_event.id, raw_event.polarity))]
      [] OTHER -> [th |-> th, ev |-> Some(Unknown)]

(* One iteration of the loop of the from_fn closure *)
Evt2Step ==
    /\ fmt = "EVT2" /\ ~panicked
    /\ IF Avail >= 4
       THEN LET r == Evt2Decode(time_high, Evt2From(SubSeq(stream, pos + 1, pos + 4)))
            IN  /\ pos' = pos + 4
                /\ time_high' = r.th
                /\ IF r.ev.some
                   THEN /\ ret' = r.ev
                        /\ out' = Append(out, At(pos + 4, r.ev.v))
                   ELSE UNCHANGED <<ret, out>>
       ELSE /\ pos' = Len(stream)
            /\ ret' = None
            /\ UNCHANGED <<time_high, out>>
    /\ UNCHANGED <<varsLib, fmt, stream, event_queue, vars3, buffer, read_buffer_cursor,
                   evts, evts_at, idx, panicked>>

Next2 == Evt2Step

---------------------------------------------------------------------------
(* Streams: words of each format as the bytes of the stream *)

RECURSIVE Flatten(_)
Flatten(ss) == IF ss = <<>> THEN <<>> ELSE Head(ss) \o Flatten(Tail(ss))

SeqsUpTo(S, n) == UNION {[1..k -> S] : k \in 0..n}

(* EVT3: 16-bit words, type in bits 15..12 *)
Bytes16(w) == <<w % 256, w \div 256>>
W3(ty, payload) == Bytes16(ty * 4096 + payload)
TH3(t) == W3(EVT_TIME_HIGH, t)
TL3(t) == W3(EVT_TIME_LOW, t)
Y3(ey) == W3(EVT_ADDR_Y, ey)
X3(ex, ep) == W3(EVT_ADDR_X, ep * 2048 + ex)
VBX3(ex, ep) == W3(VECT_BASE_X, ep * 2048 + ex)
V12(m) == W3(VECT_12, m)
V8(m) == W3(VECT_8, m)
TRG3(id, ep) == W3(EXT_TRIGGER, id * 256 + ep)

(* EVT2: 32-bit words, type in bits 31..28 *)
Bytes32(ty, payload) ==
    <<payload % 256, (payload \div 256) % 256, (payload \div 65536) % 256,
      (payload \div 16777216) + 16 * ty>>
CD2(ty, ts, ex, ey) == Bytes32(ty, ts * 4194304 + ex * 2048 + ey)
TH2(h) == Bytes32(8, h)
TRG2(id, ep) == Bytes32(10, id * 256 + ep)

(* EVT2.1: 64-bit words, type in bits 63..60, the mask in bits 31..0 *)
Bytes64(ty, payload, mask) ==
    Bytes16(mask[1]) \o Bytes16(mask[2]) \o Bytes32(ty, payload)
CD21(ty, tl, ex, ey, mask) == Bytes64(ty, tl * 4194304 + ex * 2048 + ey, mask)
TH21(h) == Bytes64(EVT_TIME_HIGH, h, <<0, 0>>)
TRG21(tl, id, ep) == Bytes64(EXT_TRIGGER, tl * 4194304 + id * 256 + ep, <<0, 0>>)

(* The fields of a decoder as new() leaves them, on the stream s *)
InitCore(f, s) ==
    /\ fmt = f
    /\ stream = s
    /\ pos = 0
    /\ event_queue = <<>>
    /\ time = 0
    /\ time_base = None
    /\ time_high_loop_nb = 0
    /\ polarity = 0
    /\ x = 0
    /\ y = 0
    /\ overflow_byte = None
    /\ time_high = None
    /\ buffer = <<>>
    /\ read_buffer_cursor = 0
    /\ evts = <<>>
    /\ evts_at = 0
    /\ idx = 0
    /\ ret = [some |-> FALSE, start |-> TRUE]
    /\ out = <<>>
    /\ panicked = FALSE

InitDecoder(f, s) ==
    /\ InitCore(f, s)
    /\ input = None
    /\ result = None
    /\ resets = <<>>
    /\ parked = None
    /\ handles = <<>>

(* Streams of at most n words of Ws, then the bytes of tail *)
InitStreams(f, Ws, n, Tails) ==
    \E ws \in SeqsUpTo(Ws, n), tail \in Tails : InitDecoder(f, Flatten(ws) \o tail)

---------------------------------------------------------------------------
(* The words of the stream, as the decoders frame them from offset 0 *)

WordSize == CASE fmt = "EVT3" -> 2 [] fmt = "EVT2" -> 4 [] OTHER -> 8
NumWords == Len(stream) \div WordSize

(* The type of word k: the four high bits of its last byte, in every format *)
WordType(k) == stream[WordSize * k] \div 16

Word3(k) == Evt3Word(stream, 2 * k - 1)
Word21(k) == Evt21Word(stream, 8 * k - 7)

(* Index of the first EVT_TIME_HIGH word; NumWords + 1 when there is none *)
FirstTimeHigh ==
    LET ths == {k \in 1..NumWords : WordType(k) = EVT_TIME_HIGH}
    IN  IF ths = {} THEN NumWords + 1
        ELSE CHOOSE k \in ths : \A j \in ths : k <= j

(* Index in the stream of the word a decode step is about to decode *)
CurWord == WordEnd(WordSize) \div WordSize

(* Every event decoded so far, in decoding order *)
Emitted == out \o event_queue

IsCD(e) == e.ev.k = "CD"
EmittedCDs == SelectSeq(Emitted, IsCD)

MaxOf(S) == CHOOSE m \in S : \A j \in S : j <= m

RECURSIVE Ascending(_)
Ascending(S) ==
    IF S = {} THEN <<>>
    ELSE LET m == CHOOSE m \in S : \A j \in S : m <= j
         IN  <<m>> \o Ascending(S \ {m})

---------------------------------------------------------------------------
(* Any short stream, in each format *)

MaxWords == 4

Words3 == {TH3(1), TL3(16), Y3(10), X3(15, 1), VBX3(2, 1), V12(5), V12(0),
           V8(129), TRG3(7, 1), W3(1, 0)}

(* <<type, time low, x, y, mask>> of the EVT_NEG and EVT_POS words *)
CDWords21 == {<<EVT_POS, 3, 100, 50, <<11, 0>>>>,
              <<EVT_NEG, 1, 7, 9, <<1, 32768>>>>,
              <<EVT_POS, 0, 1, 1, <<0, 0>>>>}

Words21 == {TH21(2), TRG21(5, 7, 1), Bytes64(14, 0, <<0, 0>>)}
             \cup {CD21(w[1], w[2], w[3], w[4], w[5]) : w \in CDWords21}

Words2 == {TH2(5), CD2(1, 3, 100, 50), CD2(0, 1, 7, 9), TRG2(7, 1),
           Bytes32(2, 0)}

Init ==
    \/ InitStreams("EVT3", Words3, MaxWords, {<<>>, <<170>>})
    \/ InitStreams("EVT21", Words21, MaxWords, {<<>>, <<1, 2, 3>>})
    \/ InitStreams("READER", Words21, MaxWords, {<<>>, <<1, 2, 3>>})
    \/ InitStreams("EVT2", Words2, MaxWords, {<<>>, <<1>>})

Next == Next3 \/ Next21 \/ NextReader \/ Next2

Spec == Init /\ [][Next]_vars

---------------------------------------------------------------------------
(* Streams of time words: the time high moves up, down and across its wrap *)

MaxTimeWords == 6

TimeWords3 == {TH3(4095), TH3(2048), TH3(10), TL3(1), X3(0, 0)}

TimeWords21 == {TH21(2), TH21(1), CD21(EVT_POS, 3, 100, 50, <<3, 0>>),
                CD21(EVT_NEG, 1, 7, 9, <<1, 0>>)}

InitTime ==
    \/ InitStreams("EVT3", TimeWords3, MaxTimeWords, {<<>>})
    \/ InitStreams("EVT21", TimeWords21, MaxTimeWords, {<<>>})

NextTime == Next3 \/ Next21

SpecTime == InitTime /\ [][NextTime]_vars

---------------------------------------------------------------------------
(* EVT2.1 streams whose fields use their high bits *)

WideWords21 == {TH21(2), TH21(16777218),
                CD21(EVT_POS, 63, 2047, 2047, <<1, 0>>),
                CD21(EVT_NEG, 0, 0, 0, <<0, 32768>>),
                TRG21(63, 31, 1)}

InitWide21 == InitStreams("EVT21", WideWords21, MaxWords, {<<>>})

NextWide21 == Evt21Pop \/ Evt21FindTimeHigh \/ Evt21Read \/ Evt21DecodeWord

SpecWide21 == InitWide21 /\ [][NextWide21]_vars

---------------------------------------------------------------------------
(* The wrap scenario: EVT_TIME_HIGH(0xFFF), EVT_TIME_HIGH(0), EVT_TIME_LOW, *)
(* EVT_ADDR_Y, EVT_ADDR_X                                                   *)

S5Low == {0, 1, 2, 4095}
S5Y == {0, 7, 2047}
S5X == {0, 5, 2047}

S5Stream(l, ey, ex, ep) ==
    TH3(4095) \o TH3(0) \o TL3(l) \o Y3(ey) \o X3(ex, ep)

InitS5 ==
    \E l \in S5Low, ey \in S5Y, ex \in S5X, ep \in 0..1 :
        InitDecoder("EVT3", S5Stream(l, ey, ex, ep))

NextS5 == Evt3Pop \/ Evt3FindTimeBase \/ Evt3Read \/ Evt3DecodeWord

SpecS5 == InitS5 /\ [][NextS5]_vars


---------------------------------------------------------------------------
(* lib.rs: the accessors of Event *)

(* pub fn timestamp(&self) -> Option<u64> *)
Event_timestamp(e) == IF e.k = "CD" THEN Some(e.t) ELSE None

(* pub fn polarity(&self) -> Option<u8> *)
Event_polarity(e) ==
    CASE e.k = "CD" -> Some(e.p)
      [] e.k = "ExternalTrigger" -> Some(e.p)
      [] OTHER -> None

(* pub fn x(&self) -> Option<u16> *)
Event_x(e) == IF e.k = "CD" THEN Some(e.x) ELSE None

(* pub fn y(&self) -> Option<u16> *)
Event_y(e) == IF e.k = "CD" THEN Some(e.y) ELSE None

(* Values of the enum Event *)
Events ==
    {CD(ex, ey, ep, et) : ex \in {0, 1279}, ey \in {0, 719}, ep \in 0..1,
                          et \in {0, 5, 16777216}}
      \cup {ExternalTriggerAt(id, ep, et) : id \in {0, 7}, ep \in 0..1,
                                            et \in {0, 5, 16777216}}
      \cup {Unknown}

InitEvent ==
    /\ InitCore("EVENT", <<>>)
    /\ input \in Events
    /\ result = None
    /\ resets = <<>>
    /\ parked = None
    /\ handles = <<>>

(* A call of one accessor on the event *)
Call(name, value) ==
    /\ fmt = "EVENT"
    /\ result' = Some([fn |-> name, v |-> value])
    /\ UNCHANGED <<fmt, stream, pos, event_queue, vars3, vars21, evts, evts_at,
                   idx, ret, out, panicked, input, resets, parked, handles>>

CallTimestamp == Call("timestamp", Event_timestamp(input))
CallPolarity == Call("polarity", Event_polarity(input))
CallX == Call("x", Event_x(input))
CallY == Call("y", Event_y(input))

NextEvent == CallTimestamp \/ CallPolarity \/ CallX \/ CallY

SpecEvent == InitEvent /\ [][NextEvent]_vars


---------------------------------------------------------------------------
(* macros.rs: extract_bits! on the bits of the storage type *)

(* A value of an unsigned type of w bits: bit i at index i, 0 <= i < w *)
BitsOfWord(bytes, w) == [i \in 0..(w - 1) |-> Bit(bytes, i)]

(* let one: $source_type = 1 *)
OneWord(w) == [i \in 0..(w - 1) |-> IF i = 0 THEN 1 ELSE 0]

(* a << n for n < w: the bits shifted out are lost *)
Shl(a, w, n) == [i \in 0..(w - 1) |-> IF i >= n THEN a[i - n] ELSE 0]

(* a >> n for n < w *)
Shr(a, w, n) == [i \in 0..(w - 1) |-> IF i + n < w THEN a[i + n] ELSE 0]

(* a - 1, for a # 0 *)
SubOne(a, w) ==
    LET low == CHOOSE j \in 0..(w - 1) :
                   a[j] = 1 /\ \A i \in 0..(j - 1) : a[i] = 0
    IN  [i \in 0..(w - 1) |-> IF i < low THEN 1 ELSE IF i = low THEN 0 ELSE a[i]]

(* a & b *)
BitAnd(a, b, w) == [i \in 0..(w - 1) |-> a[i] * b[i]]

(* one << $len overflows when the shift count is not below the width: a    *)
(* panic where overflow checks are compiled in, else the count is wrapped  *)
ShlOverflows(w, len) == len >= w

(* let mask = ((one << $len) - 1) << $start, the shift count taken mod w *)
ExtractMask(w, start, len) ==
    Shl(SubOne(Shl(OneWord(w), w, len % w), w), w, start)

(* let extracted = ($value & mask) >> $start *)
ExtractBitsWord(value, w, start, len) ==
    Shr(BitAnd(value, ExtractMask(w, start, len), w), w, start)

(* Storage words of each width, as little-endian bytes *)
BitWords(w) ==
    CASE w = 16 -> {<<255, 255>>, <<165, 90>>, <<1, 128>>}
      [] w = 32 -> {<<255, 255, 255, 255>>, <<165, 90, 60, 195>>, <<1, 0, 0, 128>>}
      [] w = 64 -> {<<255, 255, 255, 255, 255, 255, 255, 255>>,
                    <<165, 90, 60, 195, 15, 240, 102, 153>>,
                    <<1, 0, 0, 0, 0, 0, 0, 128>>}

(* A word and a bit range lo..hi inside it *)
BitInputs ==
    {[w |-> w, word |-> b, lo |-> lo, hi |-> hi] :
        w \in {16}, b \in BitWords(16), lo \in 0..15, hi \in 0..15}
      \cup {[w |-> w, word |-> b, lo |-> lo, hi |-> hi] :
        w \in {32}, b \in BitWords(32), lo \in 0..31, hi \in 0..31}
      \cup {[w |-> w, word |-> b, lo |-> lo, hi |-> hi] :
        w \in {64}, b \in BitWords(64), lo \in 0..63, hi \in 0..63}

InitBits ==
    /\ InitCore("BITS", <<>>)
    /\ input \in {i \in BitInputs : i.lo <= i.hi}
    /\ result = None
    /\ resets = <<>>
    /\ parked = None
    /\ handles = <<>>

(* extract_bits!(value, $source_type, $source_type, lo, hi - lo + 1) *)
ExtractBits ==
    /\ fmt = "BITS" /\ ~panicked /\ ~result.some
    /\ LET len == input.hi - input.lo + 1
           value == BitsOfWord(input.word, input.w)
       IN  \/ /\ ShlOverflows(input.w, len)
              /\ panicked' = TRUE
              /\ UNCHANGED result
           \/ /\ result' = Some(ExtractBitsWord(value, input.w, input.lo, len))
              /\ UNCHANGED panicked
    /\ UNCHANGED <<fmt, stream, pos, event_queue, vars3, vars21, evts, evts_at,
                   idx, ret, out, input, resets, parked, handles>>

NextBits == ExtractBits

SpecBits == InitBits /\ [][NextBits]_vars


---------------------------------------------------------------------------
(* lib.rs: parse_header and RawFileReader *)

(* Text is a sequence of bytes, as the file holds it *)
PERCENT == 37
SPACE == 32
NEWLINE == 10
SEMICOLON == 59

KeyEvt == <<101, 118, 116>>  \* "evt"
KeyFormat == <<102, 111, 114, 109, 97, 116>>  \* "format"
KeyGeometry == <<103, 101, 111, 109, 101, 116, 114, 121>>  \* "geometry"
KeyDate == <<100, 97, 116, 101>>  \* "date"

Tag20 == <<50, 46, 48>>  \* "2.0"
TagEVT2 == <<69, 86, 84, 50>>  \* "EVT2"
Tag21 == <<50, 46, 49>>  \* "2.1"
TagEVT21 == <<69, 86, 84, 50, 49>>  \* "EVT21"
Tag30 == <<51, 46, 48>>  \* "3.0"
TagEVT3 == <<69, 86, 84, 51>>  \* "EVT3"
Tag40 == <<52, 46, 48>>  \* "4.0"
TagEVT4 == <<69, 86, 84, 52>>  \* "EVT4"

ValDecorated == <<69, 86, 84, 50, 49, 59, 101, 110, 100, 105, 97, 110, 110, 101, 115, 115, 61, 108, 105, 116, 116, 108, 101, 59, 104, 101, 105, 103, 104, 116, 61, 51, 50, 48, 59, 119, 105, 100, 116, 104, 61, 51, 50, 48>>
    \* "EVT21;endianness=little;height=320;width=320"
ValDecorated3 == <<51, 46, 48, 59, 119, 105, 100, 116, 104, 61, 49, 50, 56, 48>>
    \* "3.0;width=1280"
ValEmptyFirst == <<59, 69, 86, 84, 51>>
    \* ";EVT3"
ValUnknown == <<53, 46, 48>>
    \* "5.0"
ValUnknownDecorated == <<101, 118, 116, 51, 59, 69, 86, 84, 51>>
    \* "evt3;EVT3"
ValGeometry == <<49, 50, 56, 48, 120, 55, 50, 48>>  \* "1280x720"

(* char::is_whitespace on the bytes of ASCII text *)
IsWhitespace(c) == c \in {9, 10, 11, 12, 13, 32}

(* str::trim_start_matches('%') *)
RECURSIVE trim_start_matches(_, _)
trim_start_matches(s, c) ==
    IF s # <<>> /\ Head(s) = c THEN trim_start_matches(Tail(s), c) ELSE s

RECURSIVE trim_start(_)
trim_start(s) ==
    IF s # <<>> /\ IsWhitespace(Head(s)) THEN trim_start(Tail(s)) ELSE s

RECURSIVE trim_end(_)
trim_end(s) ==
    IF s # <<>> /\ IsWhitespace(s[Len(s)])
    THEN trim_end(SubSeq(s, 1, Len(s) - 1))
    ELSE s

(* str::trim *)
trim(s) == trim_end(trim_start(s))

(* Index of the first c in s, Len(s) + 1 when there is none *)
RECURSIVE FindFrom(_, _, _)
FindFrom(s, c, i) ==
    IF i > Len(s) \/ s[i] = c THEN i ELSE FindFrom(s, c, i + 1)

(* splitn(2, ' '): the key, and the value when there is a space *)
splitn2(s) ==
    LET i == FindFrom(s, SPACE, 1)
    IN  [key |-> SubSeq(s, 1, i - 1),
         value |-> IF i > Len(s) THEN None ELSE Some(SubSeq(s, i + 1, Len(s)))]

(* read_line: the bytes after position p up to and including the newline, *)
(* or up to the end of the file                                           *)
read_line(bytes, p) ==
    SubSeq(bytes, p + 1, Min(FindFrom(bytes, NEWLINE, p + 1), Len(bytes)))

Ok(v) == [ok |-> TRUE, v |-> v]
Err(e) == [ok |-> FALSE, e |-> e]

(* The loop of parse_header from position p of the file: the values of    *)
(* the evt and format keys seen so far are ets and efs.  read_line fails  *)
(* on text that is not UTF-8; the lines here are ASCII or not text.       *)
RECURSIVE HeaderLoop(_, _, _, _)
HeaderLoop(bytes, p, ets, efs) ==
    IF p >= Len(bytes) THEN Err([kind |-> "ReadBytesFailed"])
    ELSE IF bytes[p + 1] # PERCENT THEN Ok([evt |-> ets, format |-> efs, at |-> p])
    ELSE LET header_line == read_line(bytes, p)
             parts == splitn2(trim(trim_start_matches(header_line, PERCENT)))
             q == p + Len(header_line)
         IN  IF \E i \in 1..Len(header_line) : header_line[i] >= 128
             THEN Err([kind |-> "ReadBytesFailed"])
             ELSE IF ~parts.value.some THEN HeaderLoop(bytes, q, ets, efs)
             ELSE IF parts.key = KeyEvt
                  THEN HeaderLoop(bytes, q, parts.value, efs)
             ELSE IF parts.key = KeyFormat
                  THEN HeaderLoop(bytes, q, ets, parts.value)
             ELSE HeaderLoop(bytes, q, ets, efs)

(* FindFormat with the evt key first *)
FindFormat_evt(efs, ets) ==
    IF ets.some THEN Ok(ets.v)
    ELSE IF efs.some THEN Ok(efs.v)
    ELSE Err([kind |-> "EventTypeNotFound"])

(* match (event_format_string, event_type_string) *)
FindFormat(efs, ets) ==
    IF efs.some THEN Ok(efs.v)
    ELSE IF ets.some THEN Ok(ets.v)
    ELSE Err([kind |-> "EventTypeNotFound"])

(* if evt_format_str.contains(";") { the first part of split(";") } *)
FirstSegment(s) ==
    LET i == FindFrom(s, SEMICOLON, 1)
    IN  IF i > Len(s) THEN s ELSE SubSeq(s, 1, i - 1)

(* EventTypeOfTag without the arm of "4.0" | "EVT4" *)
EventTypeOfTag_no4(tag) ==
    CASE tag \in {Tag20, TagEVT2} -> Ok("Evt21")
      [] tag \in {Tag21, TagEVT21} -> Ok("Evt21")
      [] tag \in {Tag30, TagEVT3} -> Ok("Evt3")
      [] OTHER -> Err([kind |-> "UnknownEventType", tag |-> tag])

(* match evt_format_str.as_str() *)
EventTypeOfTag(tag) ==
    CASE tag \in {Tag20, TagEVT2} -> Ok("Evt21")
      [] tag \in {Tag21, TagEVT21} -> Ok("Evt21")
      [] tag \in {Tag30, TagEVT3} -> Ok("Evt3")
      [] tag \in {Tag40, TagEVT4} -> Ok("Evt4")
      [] OTHER -> Err([kind |-> "UnknownEventType", tag |-> tag])

(* parse_header: the event type and the position where the header ends *)
parse_header(bytes) ==
    LET h == HeaderLoop(bytes, 0, None, None)
    IN  IF ~h.ok THEN h
        ELSE LET f == FindFormat(h.v.format, h.v.evt)
             IN  IF ~f.ok THEN f
                 ELSE LET t == EventTypeOfTag(FirstSegment(f.v))
                      IN  IF ~t.ok THEN t
                          ELSE Ok([event_type |-> t.v, at |-> h.v.at])

(* The file at a path: whether it can be opened, and its bytes, given as  *)
(* the header lines (key and optional value) and the bytes after them     *)
HeaderLine(l) ==
    <<PERCENT, SPACE>> \o l.key
        \o (IF l.value.some THEN <<SPACE>> \o l.value.v ELSE <<>>)
        \o <<NEWLINE>>

RECURSIVE HeaderBytes(_)
HeaderBytes(ls) ==
    IF ls = <<>> THEN <<>> ELSE HeaderLine(Head(ls)) \o HeaderBytes(Tail(ls))

FileBytes(file) == HeaderBytes(file.header) \o file.body

(* RawFileReader::new: the error, or the event type of the reader and the *)
(* bytes the reader is left at                                            *)
RawFileReader_new(file) ==
    IF ~file.exists THEN Err([kind |-> "FileOpenError"])
    ELSE LET header == parse_header(FileBytes(file))
         IN  IF ~header.ok THEN header
             ELSE IF header.v.event_type \in {"Evt21", "Evt3"}
                  THEN Ok([event_type |-> header.v.event_type,
                           rest |-> SubSeq(FileBytes(file), header.v.at + 1,
                                           Len(FileBytes(file)))])
             ELSE Err([kind |-> "DecoderNotImplemented",
                       event_type |-> header.v.event_type])


(* The reader RawFileReader::new builds on the bytes after the header: an  *)
(* EvtReader with every field as EvtReader::new leaves it                  *)
Construct(f, s) ==
    /\ fmt' = f
    /\ stream' = s
    /\ pos' = 0
    /\ event_queue' = <<>>
    /\ time' = 0
    /\ time_base' = None
    /\ time_high_loop_nb' = 0
    /\ polarity' = 0
    /\ x' = 0
    /\ y' = 0
    /\ overflow_byte' = None
    /\ time_high' = None
    /\ buffer' = <<>>
    /\ read_buffer_cursor' = 0
    /\ evts' = <<>>
    /\ evts_at' = 0
    /\ idx' = 0
    /\ ret' = [some |-> FALSE, start |-> TRUE]
    /\ out' = <<>>

(* The reader of each event type: EvtReader with Evt21Decoder or with     *)
(* Evt3Decoder                                                            *)
ReaderOf(event_type) == IF event_type = "Evt21" THEN "READER" ELSE "READER3"

(* RawFileReader::new(path) *)
RawFileReaderNew ==
    /\ fmt = "FILE" /\ ~result.some
    /\ LET r == RawFileReader_new(input)
       IN  IF r.ok
           THEN /\ Construct(ReaderOf(r.v.event_type), r.v.rest)
                /\ result' = Some(Ok(r.v.event_type))
           ELSE /\ result' = Some(r)
                /\ UNCHANGED <<fmt, stream, pos, event_queue, vars3, vars21,
                               evts, evts_at, idx, ret, out>>
    /\ UNCHANGED <<panicked, input, resets, parked, handles>>

MaxResets == 3

(* reset() rebuilding the decoder on the same open file *)
RawFileReaderReset_decoder ==
    /\ fmt \in {"READER", "READER3"} /\ AtLoopTop
    /\ Len(resets) < MaxResets
    /\ time_high' = None
    /\ event_queue' = <<>>
    /\ ret' = [some |-> FALSE, start |-> TRUE]
    /\ out' = <<>>
    /\ resets' = Append(resets, Len(out))
    /\ UNCHANGED <<fmt, stream, pos, vars3, buffer, read_buffer_cursor, evts,
                   evts_at, idx, panicked, input, result, parked, handles>>

(* reset(): *self = Self::new(&self.path).unwrap(), between two calls of   *)
(* next()                                                                  *)
RawFileReaderReset ==
    /\ fmt \in {"READER", "READER3"} /\ AtLoopTop
    /\ Len(resets) < MaxResets
    /\ LET r == RawFileReader_new(input)
       IN  IF r.ok
           THEN /\ Construct(ReaderOf(r.v.event_type), r.v.rest)
                /\ result' = Some(Ok(r.v.event_type))
                /\ UNCHANGED panicked
           ELSE /\ panicked' = TRUE
                /\ UNCHANGED <<fmt, stream, pos, event_queue, vars3, vars21,
                               evts, evts_at, idx, ret, out, result>>
    /\ resets' = Append(resets, Len(out))
    /\ UNCHANGED <<input, parked, handles>>

(* Header lines: a key and its optional value *)
KV(k, v) == [key |-> k, value |-> Some(v)]

EvtLines == {KV(KeyEvt, v) : v \in {Tag20, TagEVT2, Tag21, TagEVT21, Tag30,
                                    TagEVT3, Tag40, TagEVT4, ValUnknown}}

FormatLines == {KV(KeyFormat, v) : v \in {Tag20, TagEVT21, TagEVT3, TagEVT4,
                                          ValDecorated, ValDecorated3,
                                          ValEmptyFirst, ValUnknown,
                                          ValUnknownDecorated}}

OtherLines == {KV(KeyGeometry, ValGeometry),
               [key |-> KeyDate, value |-> None],
               [key |-> KeyFormat, value |-> None]}

HeaderLines == EvtLines \cup FormatLines \cup OtherLines

(* The bytes after the header: three EVT2.1 words, or none *)
FileBody == TH21(2) \o CD21(EVT_POS, 3, 100, 50, <<3, 0>>) \o TRG21(5, 7, 1)

MaxHeaderLines == 2

Files ==
    {[exists |-> FALSE, header |-> <<>>, body |-> <<>>]}
      \cup {[exists |-> TRUE, header |-> h, body |-> b] :
               h \in SeqsUpTo(HeaderLines, MaxHeaderLines),
               b \in {<<>>, FileBody}}

InitFile ==
    /\ InitCore("FILE", <<>>)
    /\ input \in Files
    /\ result = None
    /\ resets = <<>>
    /\ parked = None
    /\ handles = <<>>

NextFile == RawFileReaderNew \/ NextReader

SpecFile == InitFile /\ [][NextFile]_vars

(* Files that open, read and reset any number of times up to MaxResets *)
ResetFiles ==
    {[exists |-> TRUE, header |-> h, body |-> FileBody] :
        h \in {<<KV(KeyEvt, Tag21)>>,
               <<KV(KeyEvt, Tag30), KV(KeyFormat, ValDecorated)>>,
               <<KV(KeyFormat, TagEVT3)>>}}

InitReset ==
    /\ InitCore("FILE", <<>>)
    /\ input \in ResetFiles
    /\ result = None
    /\ resets = <<>>
    /\ parked = None
    /\ handles = <<>>

NextReset == RawFileReaderNew \/ NextReader \/ RawFileReaderReset

SpecReset == InitReset /\ [][NextReset]_vars


---------------------------------------------------------------------------
(* Streams that fill the read buffer, from a source that returns as many   *)
(* bytes as the buffer takes                                               *)

(* The bytes of the word w, n times *)
Repeat(w, n) == [i \in 1..(n * Len(w)) |-> w[((i - 1) % Len(w)) + 1]]

(* Words beyond the first full buffer *)
ExtraWords == 128

(* An EVT_TIME_HIGH, then one word repeated over a full buffer and beyond *)
FullStream3(w) ==
    TH3(1) \o Repeat(w, (READ_BUFFER_SIZE \div 2) + ExtraWords)

FullStream21(w) ==
    TH21(2) \o Repeat(w, (READ_BUFFER_SIZE \div 8) + 1)

InitFull ==
    \/ \E w \in {V12(4095), V8(255), TRG3(7, 1)} :
           InitDecoder("EVT3", FullStream3(w))
    \/ InitDecoder("EVT21",
                   FullStream21(CD21(EVT_POS, 3, 100, 50, <<65535, 65535>>)))

(* The read fills the slice it is given, or returns what the stream has left *)
Evt3ReadFull == Evt3ReadN(Min(Avail, Evt3ReadCap))

Evt21ReadFull == Evt21ReadN(Min(Avail, READ_BUFFER_SIZE - read_buffer_cursor))

NextFull ==
    \/ Evt3Pop \/ Evt3FindTimeBase \/ Evt3ReadFull \/ Evt3DecodeWord
    \/ Evt21Pop \/ Evt21FindTimeHigh \/ Evt21ReadFull \/ Evt21DecodeWord

SpecFull == InitFull /\ [][NextFull]_vars

---------------------------------------------------------------------------
(* Two decoder instances on two streams. Every field of a decoder is a     *)
(* field of its struct and the crate has no static: the variables above    *)
(* are the instance that takes the next step, parked is the other one.     *)

(* The fields of the running instance *)
Instance ==
    [fmt |-> fmt, stream |-> stream, pos |-> pos, event_queue |-> event_queue,
     time |-> time, time_base |-> time_base,
     time_high_loop_nb |-> time_high_loop_nb, polarity |-> polarity,
     x |-> x, y |-> y, overflow_byte |-> overflow_byte,
     time_high |-> time_high, buffer |-> buffer,
     read_buffer_cursor |-> read_buffer_cursor, evts |-> evts,
     evts_at |-> evts_at, idx |-> idx, ret |-> ret, out |-> out,
     panicked |-> panicked]

(* An instance as its constructor leaves it *)
NewInstance(f, s) ==
    [fmt |-> f, stream |-> s, pos |-> 0, event_queue |-> <<>>,
     time |-> 0, time_base |-> None, time_high_loop_nb |-> 0, polarity |-> 0,
     x |-> 0, y |-> 0, overflow_byte |-> None, time_high |-> None,
     buffer |-> <<>>, read_buffer_cursor |-> 0, evts |-> <<>>, evts_at |-> 0,
     idx |-> 0, ret |-> [some |-> FALSE, start |-> TRUE], out |-> <<>>,
     panicked |-> FALSE]

(* The instance i takes the next steps *)
Resume(i) ==
    /\ fmt' = i.fmt
    /\ stream' = i.stream
    /\ pos' = i.pos
    /\ event_queue' = i.event_queue
    /\ time' = i.time
    /\ time_base' = i.time_base
    /\ time_high_loop_nb' = i.time_high_loop_nb
    /\ polarity' = i.polarity
    /\ x' = i.x
    /\ y' = i.y
    /\ overflow_byte' = i.overflow_byte
    /\ time_high' = i.time_high
    /\ buffer' = i.buffer
    /\ read_buffer_cursor' = i.read_buffer_cursor
    /\ evts' = i.evts
    /\ evts_at' = i.evts_at
    /\ idx' = i.idx
    /\ ret' = i.ret
    /\ out' = i.out
    /\ panicked' = i.panicked

(* A time base kept in one place for all instances, as a static would be *)
Switch_static ==
    /\ parked.some
    /\ parked' = Some(Instance)
    /\ Resume([parked.v EXCEPT !.time_base = time_base, !.time_high = time_high])
    /\ UNCHANGED <<input, result, resets, handles>>

(* The scheduler runs the other thread: the running instance stops where   *)
(* it is, inside or between two calls of next(), and the other one goes on *)
(* from where it stopped                                                   *)
Switch ==
    /\ parked.some
    /\ parked' = Some(Instance)
    /\ Resume(parked.v)
    /\ UNCHANGED <<input, result, resets, handles>>

PairStreamA3 == TH3(1) \o Y3(10) \o TL3(16) \o X3(15, 1) \o X3(16, 0)
PairStreamB3 == TH3(3) \o Y3(20) \o TL3(7) \o VBX3(2, 1) \o V12(5) \o X3(4, 0)
PairStreamA21 == TH21(2) \o CD21(EVT_POS, 3, 100, 50, <<3, 0>>) \o TRG21(5, 7, 1)
PairStreamB21 == TH21(5) \o CD21(EVT_NEG, 1, 7, 9, <<1, 0>>)

InitPair ==
    \E a, b \in {<<"EVT3", PairStreamA3>>, <<"EVT3", PairStreamB3>>,
                 <<"EVT21", PairStreamA21>>, <<"EVT21", PairStreamB21>>,
                 <<"READER", PairStreamA21>>} :
        /\ a # b
        /\ InitCore(a[1], a[2])
        /\ parked = Some(NewInstance(b[1], b[2]))
        /\ handles = <<>>
        /\ input = None
        /\ result = None
        /\ resets = <<>>

NextPair ==
    \/ Evt3Pop \/ Evt3FindTimeBase \/ Evt3Read \/ Evt3DecodeWord
    \/ Evt21Pop \/ Evt21FindTimeHigh \/ Evt21Read \/ Evt21DecodeWord
    \/ EvtReaderPop \/ EvtReaderRead \/ EvtReaderDecodeWord
    \/ Switch

SpecPair == InitPair /\ [][NextPair]_vars

---------------------------------------------------------------------------
(* EVT2.1 streams longer than the read buffer, read in pieces of any size  *)

(* Words past the first full buffer *)
SplitExtra == 1

(* n EVT_POS words with one event each, the k-th one at x = k *)
SplitWords(n) ==
    [j \in 1..(8 * n) |->
        CD21(EVT_POS, 3, ((j - 1) \div 8) + 1, 50, <<1, 0>>)[((j - 1) % 8) + 1]]

InitSplit ==
    \E f \in {"EVT21", "READER"},
       n \in {2, (READ_BUFFER_SIZE \div 8) + SplitExtra},
       tail \in {<<>>, <<1, 2, 3>>} :
        InitDecoder(f, TH21(2) \o SplitWords(n) \o tail)

NextSplit ==
    \/ Evt21Pop \/ Evt21FindTimeHigh \/ Evt21Read \/ Evt21DecodeWord
    \/ EvtReaderPop \/ EvtReaderRead \/ EvtReaderDecodeWord

SpecSplit == InitSplit /\ [][NextSplit]_vars

---------------------------------------------------------------------------
(* EVT3 streams whose EVT_TIME_HIGH fields advance by small steps, across  *)
(* the roll-over of the 12-bit field                                       *)

MaxBandWords == 4

(* A step d >= 0 is an EVT_TIME_HIGH whose field is d past the last one    *)
(* modulo 4096; a step below 0 is an EVT_ADDR_X word                       *)
BandSteps == {0, 1, 10, 12, 0 - 1}

RECURSIVE BandStream(_, _)
BandStream(f, ds) ==
    IF ds = <<>> THEN <<>>
    ELSE IF Head(ds) < 0 THEN X3(0, 0) \o BandStream(f, Tail(ds))
    ELSE TH3((f + Head(ds)) % 4096)
           \o BandStream((f + Head(ds)) % 4096, Tail(ds))

InitBand ==
    \E f \in {5, 4086, 4095}, ds \in SeqsUpTo(BandSteps, MaxBandWords) :
        InitDecoder("EVT3", TH3(f) \o BandStream(f, ds))

NextBand == Evt3Pop \/ Evt3FindTimeBase \/ Evt3Read \/ Evt3DecodeWord

SpecBand == InitBand /\ [][NextBand]_vars

---------------------------------------------------------------------------
(* The match of Evt3DecoderCore::next on a sequence of words that is not   *)
(* fixed in advance: the source delivers one word at a time, the queue is  *)
(* drained after each, and the decoder fields are followed from word to    *)
(* word. input is the word delivered last, result the events it pushed.    *)

MatchWords ==
    {Evt3Word(w, 1) : w \in {VBX3(0, 0), VBX3(2047, 1), V12(1), V12(0), V8(0)}}

InitMatch ==
    /\ InitCore("MATCH", <<>>)
    /\ input = None
    /\ result = None
    /\ resets = <<>>
    /\ parked = None
    /\ handles = <<>>

(* The time base search meets an EVT_TIME_HIGH *)
MatchFindTimeBase ==
    /\ fmt = "MATCH" /\ ~panicked
    /\ ~time_base.some
    /\ \E data \in {Evt3Word(TH3(1), 1)} :
         /\ input' = Some(data)
         /\ time_base' = Some(Evt3_time(data) * 4096)
    /\ UNCHANGED <<fmt, stream, pos, event_queue, time, time_high_loop_nb,
                   polarity, x, y, overflow_byte, vars21, evts, evts_at, idx,
                   ret, out, panicked, result, resets, parked, handles>>

(* One word through the match. An overflowing sum in handle_vect! panics   *)
(* in a build with overflow checks and wraps in one without.               *)
MatchWord ==
    /\ fmt = "MATCH" /\ ~panicked
    /\ time_base.some
    /\ \E data \in MatchWords :
         LET r == Evt3Decode(Evt3State, data, FALSE)
         IN  /\ input' = Some(data)
             /\ \/ /\ time' = r.s.time
                   /\ time_base' = r.s.time_base
                   /\ time_high_loop_nb' = r.s.time_high_loop_nb
                   /\ polarity' = r.s.polarity
                   /\ x' = r.s.x
                   /\ y' = r.s.y
                   /\ result' = Some(r.ev)
                   /\ UNCHANGED panicked
                \/ /\ Evt3WordOverflows(Evt3State, data)
                   /\ panicked' = TRUE
                   /\ UNCHANGED <<time, time_base, time_high_loop_nb, polarity,
                                  x, y, result>>
    /\ UNCHANGED <<fmt, stream, pos, event_queue, overflow_byte, vars21, evts,
                   evts_at, idx, ret, out, resets, parked, handles>>

NextMatch == MatchFindTimeBase \/ MatchWord

SpecMatch == InitMatch /\ [][NextMatch]_vars

---------------------------------------------------------------------------
(* read_events(): a sequence that borrows the reader's iterator. It has no *)
(* state of its own: next() on it is next() on the EvtReader.              *)

MaxHandles == 3

(* read_events() handing out a reader whose queue starts empty *)
ReadEvents_drain ==
    /\ fmt \in {"READER", "READER3"} /\ AtLoopTop
    /\ result.some
    /\ Len(handles) < MaxHandles
    /\ handles' = Append(handles, [returned |-> Len(out),
                                   queued |-> Len(event_queue)])
    /\ event_queue' = <<>>
    /\ UNCHANGED <<fmt, stream, pos, vars3, vars21, evts, evts_at, idx, ret,
                   out, panicked, input, result, resets, parked>>

(* read_events(): Box::new(&mut self.event_iterator), between two calls of *)
(* next(); the sequence returned before it is dropped                      *)
ReadEvents ==
    /\ fmt \in {"READER", "READER3"} /\ AtLoopTop
    /\ result.some
    /\ Len(handles) < MaxHandles
    /\ handles' = Append(handles, [returned |-> Len(out),
                                   queued |-> Len(event_queue)])
    /\ UNCHANGED <<fmt, stream, pos, event_queue, vars3, vars21, evts, evts_at,
                   idx, ret, out, panicked, input, result, resets, parked>>

NextHandles == RawFileReaderNew \/ NextReader \/ ReadEvents

SpecHandles == InitReset /\ [][NextHandles]_vars

---------------------------------------------------------------------------
(* slice_events: the iterator it returns, one call of its closure a step.  *)
(* input is the event sequence and the SliceBy; result holds the events    *)
(* the inner iterator has not given yet and the slices yielded so far.     *)

SliceByTime(micros) == [kind |-> "Time", micros |-> micros, count |-> 0]
SliceByCount(count) == [kind |-> "Count", micros |-> 0, count |-> count]
SliceByBoth(micros, count) == [kind |-> "Both", micros |-> micros, count |-> count]

(* let first = loop { match iter.next() ... }: the first event that has a  *)
(* timestamp; the events before it are consumed                            *)
RECURSIVE FindFirst(_)
FindFirst(rest) ==
    IF rest = <<>> THEN [found |-> FALSE, rest |-> <<>>]
    ELSE IF Event_timestamp(Head(rest)).some
         THEN [found |-> TRUE, first |-> Head(rest), rest |-> Tail(rest)]
         ELSE FindFirst(Tail(rest))

(* iter.by_ref().take(n): n calls of next() at most *)
Take(rest, n) ==
    [slice |-> SubSeq(rest, 1, Min(n, Len(rest))),
     rest |-> SubSeq(rest, Min(n, Len(rest)) + 1, Len(rest))]

(* iter.by_ref().filter(has a timestamp).take_while(timestamp < end_time)  *)
(* [.take(n)]: filter consumes the events it rejects, take_while consumes  *)
(* the event that ends it, take(n) stops before asking for an n+1-th;      *)
(* limited is FALSE when there is no take(n)                               *)
RECURSIVE TakeWhileBefore(_, _, _, _, _)
TakeWhileBefore(rest, end_time, limited, n, acc) ==
    IF limited /\ n = 0 THEN [slice |-> acc, rest |-> rest]
    ELSE IF rest = <<>> THEN [slice |-> acc, rest |-> <<>>]
    ELSE IF ~Event_timestamp(Head(rest)).some
         THEN TakeWhileBefore(Tail(rest), end_time, limited, n, acc)
    ELSE IF Event_timestamp(Head(rest)).v < end_time
         THEN TakeWhileBefore(Tail(rest), end_time, limited,
                              IF limited THEN n - 1 ELSE n,
                              Append(acc, Head(rest)))
    ELSE [slice |-> acc, rest |-> Tail(rest)]

(* One call of the closure of from_fn on the events left *)
slice_next(rest, slice_by) ==
    LET f == FindFirst(rest)
    IN  IF ~f.found THEN [some |-> FALSE, rest |-> f.rest]
        ELSE LET first_ts == Event_timestamp(f.first).v
                 r == IF slice_by.kind = "Count"
                      THEN Take(f.rest, slice_by.count - 1)
                      ELSE TakeWhileBefore(f.rest, first_ts + slice_by.micros,
                                           slice_by.kind = "Both",
                                           slice_by.count - 1, <<>>)
             IN  [some |-> TRUE, slice |-> <<f.first>> \o r.slice,
                  rest |-> r.rest]

MaxSliceEvents == 4

SliceEvents ==
    {CD(0, 0, 1, et) : et \in {1, 2, 4, 5}} \cup {ExternalTriggerAt(7, 1, 3), Unknown}

SliceBys ==
    {SliceByTime(d) : d \in {2, 3}} \cup {SliceByCount(c) : c \in 1..2}
      \cup {SliceByBoth(2, 2)}

(* The timestamps along events never go down *)
InTimeOrder(events) ==
    \A i, j \in 1..Len(events) :
        (i < j /\ Event_timestamp(events[i]).some /\ Event_timestamp(events[j]).some)
            => Event_timestamp(events[i]).v <= Event_timestamp(events[j]).v

InitSlice ==
    /\ InitCore("SLICE", <<>>)
    /\ \E events \in SeqsUpTo(SliceEvents, MaxSliceEvents), slice_by \in SliceBys :
         /\ InTimeOrder(events)
         /\ input = [events |-> events, slice_by |-> slice_by]
         /\ result = [rest |-> events, slices |-> <<>>, done |-> FALSE]
    /\ resets = <<>>
    /\ parked = None
    /\ handles = <<>>

(* next() on the iterator slice_events returned *)
SliceNext ==
    /\ fmt = "SLICE"
    /\ ~result.done
    /\ LET r == slice_next(result.rest, input.slice_by)
       IN  result' = [rest |-> r.rest,
                      slices |-> IF r.some THEN Append(result.slices, r.slice)
                                 ELSE result.slices,
                      done |-> ~r.some]
    /\ UNCHANGED <<fmt, stream, pos, event_queue, vars3, vars21, evts, evts_at,
                   idx, ret, out, panicked, input, resets, parked, handles>>

NextSlice == SliceNext

SpecSlice == InitSlice /\ [][NextSlice]_vars

---------------------------------------------------------------------------
(* C1: timestamps along the output of one stream *)

(* C1: along the output of a stream, the t of every CD event is at least    *)
(* the t of the CD event emitted before it.  (The decoders build            *)
(* ExternalTrigger without a t, so the CD events are the ones that carry    *)
(* timestamps.)                                                             *)
C1_TimeNonDecreasing ==
    \A i \in 1..(Len(EmittedCDs) - 1) :
        EmittedCDs[i + 1].ev.t >= EmittedCDs[i].ev.t

---------------------------------------------------------------------------
(* C2: the wrap of the 24-bit time high *)

---------------------------------------------------------------------------
(* C3: the words before the first EVT_TIME_HIGH *)

(* The words after the first EVT_TIME_HIGH that emit whatever their fields  *)
EmitsAlways(k) ==
    CASE fmt = "EVT3" -> WordType(k) \in {EVT_ADDR_X, EXT_TRIGGER}
      [] fmt = "EVT2" -> WordType(k) \in {0, 1, EXT_TRIGGER}
      [] OTHER -> WordType(k) = EXT_TRIGGER

(* C3: in every format no CD and no ExternalTrigger event comes from a word *)
(* before the first EVT_TIME_HIGH word of the stream, and once the stream   *)
(* is read to its end every emitting word after it has its event in the     *)
(* output.                                                                  *)
C3_NoEventBeforeTimeHigh ==
    /\ \A i \in 1..Len(Emitted) :
          Emitted[i].ev.k \in {"CD", "ExternalTrigger"}
              => Emitted[i].o > WordSize * FirstTimeHigh
    /\ ret = None =>
          \A k \in (FirstTimeHigh + 1)..NumWords :
              EmitsAlways(k) => \E i \in 1..Len(out) : out[i].o = WordSize * k

---------------------------------------------------------------------------
(* C4: EVT_ADDR_X *)

(* The y of the most recent EVT_ADDR_Y word among the words from..k-1 of    *)
(* the stream, 0 when there is none                                         *)
LastAddrY(from, k) ==
    LET ys == {j \in from..(k - 1) : WordType(j) = EVT_ADDR_Y}
    IN  IF ys = {} THEN 0 ELSE Word3(MaxOf(ys)) % 2048

(* Decoding an EVT_ADDR_X word pushes one event and nothing else: the CD of *)
(* its bits 10..0 and bit 11, the last y among the words from..., and time  *)
AddrXStep(from) ==
    (fmt = "EVT3" /\ Decoding /\ WordType(CurWord) = EVT_ADDR_X)
        => event_queue' = Append(event_queue,
                                 At(2 * CurWord,
                                    CD(Word3(CurWord) % 2048,
                                       LastAddrY(from, CurWord),
                                       (Word3(CurWord) \div 2048) % 2,
                                       time)))

(* C4: an EVT_ADDR_X word after the first EVT_TIME_HIGH emits    *)
(* exactly one CD with x = bits 10..0, p = bit 11, t = the current time and *)
(* y = the y of the most recent EVT_ADDR_Y word of the stream (0 if none).  *)
C4_AddrXLastYOfStream == [][AddrXStep(1)]_vars

(* What the decoder does: the y is that of the most recent EVT_ADDR_Y word  *)
(* after the first EVT_TIME_HIGH, 0 if none follows it; the words before    *)
(* the first EVT_TIME_HIGH leave no trace in the state.                     *)
AddrXLastYAfterTimeHigh == [][AddrXStep(FirstTimeHigh + 1)]_vars

---------------------------------------------------------------------------
(* C5: the vector expansion law *)

VectSize(k) == IF WordType(k) = VECT_12 THEN 12 ELSE 8

(* The columns the VECT_12 and VECT_8 words a..b of the stream span *)
VectAdvance(a, b) ==
    12 * Cardinality({j \in a..b : WordType(j) = VECT_12})
      + 8 * Cardinality({j \in a..b : WordType(j) = VECT_8})

(* Base and polarity for the vector word k, from the words from..k-1: those *)
(* of the most recent VECT_BASE_X(x0, pol), the base advanced by the vector *)
(* words since; 0 and 0, advanced alike, when there is no VECT_BASE_X       *)
VectBase(from, k) ==
    LET bs == {j \in from..(k - 1) : WordType(j) = VECT_BASE_X}
    IN  IF bs = {}
        THEN [x |-> VectAdvance(from, k - 1), pol |-> 0]
        ELSE [x |-> (Word3(MaxOf(bs)) % 2048) + VectAdvance(MaxOf(bs) + 1, k - 1),
              pol |-> (Word3(MaxOf(bs)) \div 2048) % 2]

(* CD(x0 + i, ey, ep, et) for the i in 0..n-1 with bit i of mask set, in    *)
(* ascending i                                                              *)
Expansion(x0, n, mask, ey, ep, et) ==
    LET is == Ascending({i \in 0..(n - 1) : (mask \div Pow2(i)) % 2 = 1})
    IN  [j \in 1..Len(is) |-> CD(x0 + is[j], ey, ep, et)]

VectStep(from) ==
    (fmt = "EVT3" /\ Decoding /\ WordType(CurWord) \in {VECT_12, VECT_8})
        => LET b == VectBase(from, CurWord)
               n == VectSize(CurWord)
           IN  /\ event_queue' =
                     event_queue \o Tagged(2 * CurWord,
                                           Expansion(b.x, n, Word3(CurWord) % 4096,
                                                     y, b.pol, time))
               /\ x' = b.x + n

(* C5: after VECT_BASE_X(x0, pol) a VECT_N(mask) word emits      *)
(* exactly CD(x0 + i, last_y, pol, time) for the set bits i of mask, in     *)
(* ascending i, and whatever the mask the base then advances by N, so that  *)
(* the next VECT_N word without a new VECT_BASE_X expands from x0 + N.      *)
C5_VectorLawAnyBase == [][VectStep(1)]_vars

(* What the decoder does: the law with VECT_BASE_X(x0, pol) the most       *)
(* recent one after the first EVT_TIME_HIGH (base 0 and polarity 0,         *)
(* advanced by the vector words decoded so far, if none follows it).        *)
VectorLawAfterTimeHigh == [][VectStep(FirstTimeHigh + 1)]_vars

---------------------------------------------------------------------------
(* C6: the EVT2.1 mask enumeration law *)

MaskBit(mask, k) ==
    IF k < 16 THEN (mask[1] \div Pow2(k)) % 2 ELSE (mask[2] \div Pow2(k - 16)) % 2

MaskExpansion(ex, ey, ep, et, mask) ==
    LET ks == Ascending({k \in 0..31 : MaskBit(mask, k) = 1})
    IN  [j \in 1..Len(ks) |-> CD(ex + ks[j], ey, ep, et)]

(* C6: once the time base is set, decoding the EVT_POS (EVT_NEG) word with  *)
(* x = X, y = Y, mask = M pushes exactly CD(X + k, Y, 1 (0), t) for the set *)
(* bits k of M in ascending k, all with the same t, the time high joined    *)
(* with the time low of the word, and nothing when M = 0.                   *)
C6_MaskEnumeration ==
    [][(fmt = "EVT21" /\ Decoding) =>
          \A w \in CDWords21 :
              Word21(CurWord) = CD21(w[1], w[2], w[3], w[4], w[5])
                  => event_queue' =
                        event_queue \o Tagged(8 * CurWord,
                                              MaskExpansion(w[3], w[4], w[1],
                                                            time_high.v + w[2],
                                                            w[5]))]_vars

(* The EVT_POS word with mask 0b1011 at x = 100 and the EVT_NEG word with   *)
(* bits 0 and 31 set at x = 7 have been decoded                             *)
C6_Witness ==
    /\ fmt = "EVT21"
    /\ \E i \in 1..Len(Emitted) : Emitted[i].ev = CD(103, 50, 1, 131)
    /\ \E i \in 1..Len(Emitted) : Emitted[i].ev = CD(38, 9, 0, 129)

---------------------------------------------------------------------------
(* C7: the wrap scenario *)

(* C7: on EVT_TIME_HIGH(0xFFF), EVT_TIME_HIGH(0), EVT_TIME_LOW(l),          *)
(* EVT_ADDR_Y(y), EVT_ADDR_X(x, pol), time_high_loop_nb changes once, from  *)
(* 0 to 1 when the second word is decoded, and the one event of the stream  *)
(* is CD(x, y, pol, TIME_LOOP_DURATION_US + l).                             *)
C7_WrapScenario ==
    /\ [](\A l \in S5Low, ey \in S5Y, ex \in S5X, ep \in 0..1 :
            stream = S5Stream(l, ey, ex, ep) =>
                /\ Len(Emitted) <= 1
                /\ \A i \in 1..Len(Emitted) :
                      Emitted[i].ev = CD(ex, ey, ep, TIME_LOOP_DURATION_US + l)
                /\ ret = None => Len(out) = 1)
    /\ [][(Decoding /\ CurWord = 2)
            => (time_high_loop_nb = 0 /\ time_high_loop_nb' = 1)]_vars
    /\ [][time_high_loop_nb' # time_high_loop_nb => (Decoding /\ CurWord = 2)]_vars

(* The scenario with l = 1, y = 0, x = 0, pol = 0, read to its end *)
C7_Witness ==
    /\ stream = S5Stream(1, 0, 0, 0)
    /\ ret = None
    /\ time_high_loop_nb = 1
    /\ Len(out) = 1 /\ out[1].ev = CD(0, 0, 0, 16777217)

---------------------------------------------------------------------------
(* C8: the time base across the wrap *)

(* The word under decode is EVT_TIME_HIGH(0) and the word before it in the  *)
(* stream is EVT_TIME_HIGH(0xFFF)                                           *)
AtWrapWord ==
    /\ fmt = "EVT3" /\ Decoding /\ CurWord >= 2
    /\ Word3(CurWord) = EVT_TIME_HIGH * 4096
    /\ Word3(CurWord - 1) = EVT_TIME_HIGH * 4096 + 4095

(* C8, as stated: the time base after EVT_TIME_HIGH(0) exceeds the time     *)
(* base after the EVT_TIME_HIGH(0xFFF) before it by TIME_LOOP_DURATION_US,  *)
(* and time_high_loop_nb goes up by 1.                                      *)
C8_BaseDifferenceIsLoopDuration ==
    [][AtWrapWord =>
          /\ time_base'.v - time_base.v = TIME_LOOP_DURATION_US
          /\ time_high_loop_nb' = time_high_loop_nb + 1]_vars

(* C8, amended: the time base goes from MAX_TIMESTAMP_BASE past the wrap to *)
(* the next multiple of TIME_LOOP_DURATION_US, a difference of              *)
(* TIME_LOOP_DURATION_US - MAX_TIMESTAMP_BASE (4096), and                   *)
(* time_high_loop_nb goes up by 1.                                          *)
C8_BaseStepsOverWrap ==
    [][AtWrapWord =>
          /\ time_base'.v - time_base.v = TIME_LOOP_DURATION_US - MAX_TIMESTAMP_BASE
          /\ time_base'.v = (time_high_loop_nb + 1) * TIME_LOOP_DURATION_US
          /\ time_high_loop_nb' = time_high_loop_nb + 1]_vars

(* Both EVT_TIME_HIGH words are decoded and the time low is not yet *)
C8_Witness ==
    /\ fmt = "EVT3"
    /\ Decoding /\ CurWord = 3
    /\ Word3(2) = EVT_TIME_HIGH * 4096
    /\ time_base = Some(TIME_LOOP_DURATION_US)
    /\ time_high_loop_nb = 1

---------------------------------------------------------------------------
(* C9: the iterator contract *)

(* C9: next() returns None only when the byte stream is exhausted, the      *)
(* queue is empty and nothing read is left to decode; and once next() has   *)
(* returned None every later call returns None and no event is returned.    *)
C9_IteratorContract ==
    /\ [](ret = None =>
            /\ Avail = 0
            /\ event_queue = <<>>
            /\ ~Decoding
            /\ buffer = <<>>)
    /\ [][ret = None => (ret' = None /\ out' = out)]_vars

(* The framed reader returned events and then None *)
C9_Witness ==
    /\ fmt = "READER"
    /\ ret = None
    /\ Len(out) >= 2

---------------------------------------------------------------------------
(* C10: no call fails *)

(* C10: whatever the bytes of the stream, no call of next() panics. *)
C10_NeverPanics == ~panicked

---------------------------------------------------------------------------
(* The events of the complete words of the stream, word by word in stream  *)
(* order: what the match of each decoder pushes for each word from the     *)
(* first one it decodes, with no reads, buffers or queue in between        *)

RECURSIVE Fold3(_, _, _)
Fold3(s, k, acc) ==
    IF k > NumWords THEN acc
    ELSE LET r == Evt3Decode(s, Word3(k), FALSE)
         IN  Fold3(r.s, k + 1, acc \o Tagged(2 * k, r.ev))

RECURSIVE Fold21(_, _, _)
Fold21(th, k, acc) ==
    IF k > NumWords THEN acc
    ELSE LET r == Evt21Decode(th, Word21(k))
         IN  Fold21(r.th, k + 1, acc \o Tagged(8 * k, r.ev))

RECURSIVE FoldReader(_, _, _)
FoldReader(th, k, acc) ==
    IF k > NumWords THEN acc
    ELSE LET r == DecoderDecode(th, Word21(k))
         IN  FoldReader(r.th, k + 1, acc \o Tagged(8 * k, r.ev))

RECURSIVE Fold2(_, _, _)
Fold2(th, k, acc) ==
    IF k > NumWords THEN acc
    ELSE LET r == Evt2Decode(th, Evt2From(SubSeq(stream, 4 * k - 3, 4 * k)))
         IN  Fold2(r.th, k + 1,
                   IF r.ev.some THEN Append(acc, At(4 * k, r.ev.v)) ELSE acc)

WordByWord ==
    CASE fmt = "EVT3" ->
           IF FirstTimeHigh > NumWords THEN <<>>
           ELSE Fold3([time |-> 0,
                       time_base |-> Some(Evt3_time(Word3(FirstTimeHigh)) * 4096),
                       time_high_loop_nb |-> 0, polarity |-> 0, x |-> 0, y |-> 0],
                      FirstTimeHigh + 1, <<>>)
      [] fmt = "EVT21" ->
           IF FirstTimeHigh > NumWords THEN <<>>
           ELSE Fold21(Some(Evt21_time_high(Word21(FirstTimeHigh))),
                       FirstTimeHigh + 1, <<>>)
      [] fmt = "EVT2" -> Fold2(None, 1, <<>>)
      [] OTHER -> FoldReader(None, 1, <<>>)

IsPrefix(a, b) == Len(a) <= Len(b) /\ a = SubSeq(b, 1, Len(a))

(* Offset up to which the words of the stream have been decoded *)
DecodedEnd ==
    IF Decoding THEN evts_at + WordSize * idx
    ELSE pos - Len(buffer) - (IF overflow_byte.some THEN 1 ELSE 0)

---------------------------------------------------------------------------
(* C11: a stream that ends inside a word *)

(* C11: when the length of the stream is no multiple of the word size, the  *)
(* complete words decode as if the orphan bytes were absent, the orphan     *)
(* bytes give no event, and the iteration ends with None: no call fails and *)
(* at None the output is that of the complete words.                        *)
C11_OrphanBytesDiscarded ==
    Len(stream) % WordSize # 0 =>
        /\ ~panicked
        /\ \A i \in 1..Len(Emitted) : Emitted[i].o <= WordSize * NumWords
        /\ ret = None => out = WordByWord

---------------------------------------------------------------------------
(* C12: words of no recognised type *)

Recognised ==
    IF fmt = "EVT3"
    THEN {EVT_ADDR_Y, EVT_ADDR_X, VECT_BASE_X, VECT_12, VECT_8, EVT_TIME_LOW,
          EVT_TIME_HIGH, EXT_TRIGGER}
    ELSE {EVT_NEG, EVT_POS, EVT_TIME_HIGH, EXT_TRIGGER}

(* C12: every word read so far whose type is not a recognised one has       *)
(* exactly one event, an Unknown, at its place in the output, also when it  *)
(* lies before the first EVT_TIME_HIGH.                                     *)
C12_UnknownForUnrecognised ==
    \A k \in 1..NumWords :
        (WordSize * k <= DecodedEnd /\ WordType(k) \notin Recognised) =>
            /\ Cardinality({i \in 1..Len(Emitted) : Emitted[i].o = WordSize * k}) = 1
            /\ \A i \in 1..Len(Emitted) :
                  Emitted[i].o = WordSize * k => Emitted[i].ev = Unknown

---------------------------------------------------------------------------
(* C13: the order of the output *)

(* C13: the events decoded so far, those returned followed by those queued, *)
(* are the first events of the word-by-word output of the stream, in its    *)
(* order, none missing and none twice; when next() returns None the events  *)
(* returned are that whole output.                                          *)
C13_OutputInWordOrder ==
    /\ IsPrefix(Emitted, WordByWord)
    /\ ret = None => out = WordByWord

(* An EVT3 stream read to its end whose output holds events of several      *)
(* words, one of them a vector word with two events                         *)
C13_Witness ==
    /\ fmt = "EVT3"
    /\ ret = None
    /\ \E i \in 1..(Len(out) - 2) :
          /\ out[i].o < out[i + 1].o
          /\ out[i + 1].o = out[i + 2].o
          /\ out[i + 1].ev.x < out[i + 2].ev.x

---------------------------------------------------------------------------
(* C14: polarity *)

(* C14: every CD and every ExternalTrigger event decoded has p in {0, 1}. *)
C14_PolarityIsBit ==
    \A i \in 1..Len(Emitted) :
        Emitted[i].ev.k \in {"CD", "ExternalTrigger"} => Emitted[i].ev.p \in {0, 1}

(* Events of both polarities and an ExternalTrigger have been decoded *)
C14_Witness ==
    /\ \E i \in 1..Len(Emitted) : Emitted[i].ev.k = "CD" /\ Emitted[i].ev.p = 1
    /\ \E i \in 1..Len(Emitted) : Emitted[i].ev.k = "CD" /\ Emitted[i].ev.p = 0
    /\ \E i \in 1..Len(Emitted) :
          Emitted[i].ev.k = "ExternalTrigger" /\ Emitted[i].ev.p = 1

---------------------------------------------------------------------------
(* Fields of the words of the stream, by bit position *)

WordBytes(k) == SubSeq(stream, WordSize * (k - 1) + 1, WordSize * k)

(* Bits start..start+len-1 of word k *)
Field(k, start, len) == BitsValue(WordBytes(k), 8 * WordSize, start, len)

(* Index of the last EVT_TIME_HIGH word before word k *)
LatestTimeHigh(k) == MaxOf({j \in 1..(k - 1) : WordType(j) = EVT_TIME_HIGH})

(* The field of an EVT_TIME_HIGH word: 12 bits in EVT3, 28 bits in EVT2 and *)
(* in EVT2.1, where it sits above the 32 low bits                           *)
TimeHighField(k) ==
    CASE fmt = "EVT3" -> Field(k, 0, 12)
      [] fmt = "EVT2" -> Field(k, 0, 28)
      [] OTHER -> Field(k, 32, 28)

---------------------------------------------------------------------------
(* C15: the time base of an event *)

(* C15: the t of every CD event lies in the window of the time base that    *)
(* the latest EVT_TIME_HIGH before its word set: in EVT3 t div 4096 is the  *)
(* field of that word (counted modulo the wraps of the 12-bit field), in    *)
(* EVT2 and EVT2.1 t div 64 is the field of that word.                      *)
C15_TimeInWindowOfBase ==
    \A i \in 1..Len(EmittedCDs) :
        LET k == EmittedCDs[i].o \div WordSize
            t == EmittedCDs[i].ev.t
        IN  IF fmt = "EVT3"
            THEN (t \div 4096) % 4096 = TimeHighField(LatestTimeHigh(k))
            ELSE t \div 64 = TimeHighField(LatestTimeHigh(k))

---------------------------------------------------------------------------
(* C16: the EVT2 CD words *)

(* C16: in EVT2, each CD_ON or CD_OFF word read after the first             *)
(* EVT_TIME_HIGH has exactly one event, the CD with x = bits 21..11,        *)
(* y = bits 10..0, p = the low bit of the type code and                     *)
(* t = time_base | bits 27..22, the same layout for both types.             *)
C16_Evt2CDLayout ==
    fmt = "EVT2" =>
        \A k \in (FirstTimeHigh + 1)..NumWords :
            (4 * k <= pos /\ WordType(k) \in {0, 1}) =>
                /\ Cardinality({i \in 1..Len(out) : out[i].o = 4 * k}) = 1
                /\ \A i \in 1..Len(out) :
                      out[i].o = 4 * k =>
                          out[i].ev = CD(Field(k, 11, 11), Field(k, 0, 11),
                                         WordType(k) % 2,
                                         TimeHighField(LatestTimeHigh(k)) * 64
                                           + Field(k, 22, 6))

---------------------------------------------------------------------------
(* C17: the EVT2 trigger *)

(* C17: in EVT2, the event of an EXT_TRIGGER word that follows an           *)
(* EVT_TIME_HIGH(h) is ExternalTrigger with the id (bits 12..8) and the     *)
(* polarity (bit 0) of the word and t = h << 6.                             *)
C17_Evt2TriggerHasTime ==
    fmt = "EVT2" =>
        \A k \in (FirstTimeHigh + 1)..NumWords :
            (4 * k <= pos /\ WordType(k) = EXT_TRIGGER) =>
                /\ Cardinality({i \in 1..Len(out) : out[i].o = 4 * k}) = 1
                /\ \A i \in 1..Len(out) :
                      out[i].o = 4 * k =>
                          out[i].ev = ExternalTriggerAt(
                                          Field(k, 8, 5), Field(k, 0, 1),
                                          TimeHighField(LatestTimeHigh(k)) * 64)

---------------------------------------------------------------------------
(* C18: the EVT2.1 time base *)

(* C18: in EVT2.1 an EVT_TIME_HIGH word has no event and sets the time base *)
(* to its field (bits 59..32) shifted left by 6, and every CD of a later    *)
(* word with time field L (bits 59..54) has t mod 64 = L and t div 64 = the *)
(* field of the latest EVT_TIME_HIGH.                                       *)
C18_Evt21TimeBase ==
    fmt = "EVT21" =>
        /\ \A i \in 1..Len(Emitted) :
              WordType(Emitted[i].o \div 8) # EVT_TIME_HIGH
        /\ \A i \in 1..Len(EmittedCDs) :
              LET k == EmittedCDs[i].o \div 8
              IN  /\ EmittedCDs[i].ev.t % 64 = Field(k, 54, 6)
                  /\ EmittedCDs[i].ev.t \div 64 = Field(LatestTimeHigh(k), 32, 28)
        /\ time_high.some =>
              time_high.v
                = Field(LatestTimeHigh((DecodedEnd \div 8) + 1), 32, 28) * 64

(* A CD with time low 63 under the time high 0x1000002, whose bit 24 is set *)
C18_Witness ==
    /\ fmt = "EVT21"
    /\ time_high = Some(16777218 * 64)
    /\ \E i \in 1..Len(EmittedCDs) :
          EmittedCDs[i].ev.t = 16777218 * 64 + 63

---------------------------------------------------------------------------
(* C19: the EVT2.1 trigger *)

(* C19: in EVT2.1, the event of an EXT_TRIGGER word decoded once the time   *)
(* base is set is ExternalTrigger with id = bits 44..40, p = bit 32 and     *)
(* t = time_base | bits 59..54, and the word has no other event.            *)
C19_Evt21TriggerHasTime ==
    fmt = "EVT21" =>
        \A k \in (FirstTimeHigh + 1)..NumWords :
            (8 * k <= DecodedEnd /\ WordType(k) = EXT_TRIGGER) =>
                /\ Cardinality({i \in 1..Len(Emitted) : Emitted[i].o = 8 * k}) = 1
                /\ \A i \in 1..Len(Emitted) :
                      Emitted[i].o = 8 * k =>
                          Emitted[i].ev = ExternalTriggerAt(
                                              Field(k, 40, 5), Field(k, 32, 1),
                                              Field(LatestTimeHigh(k), 32, 28) * 64
                                                + Field(k, 54, 6))

---------------------------------------------------------------------------
(* C20: the EVT3 trigger *)

(* C20: in EVT3, decoding an EXT_TRIGGER word pushes exactly one event,     *)
(* ExternalTrigger with id = bits 11..8, p = bit 0 and t = the decoder's    *)
(* current time.                                                            *)
C20_Evt3TriggerHasTime ==
    [][(fmt = "EVT3" /\ Decoding /\ WordType(CurWord) = EXT_TRIGGER)
         => event_queue' = Append(event_queue,
                                  At(2 * CurWord,
                                     ExternalTriggerAt(Field(CurWord, 8, 4),
                                                       Field(CurWord, 0, 1),
                                                       time)))]_vars


---------------------------------------------------------------------------
(* C24: the accessors of an event *)

(* C24: each accessor returns the field exactly when the variant has it:    *)
(* timestamp() is t for CD and for ExternalTrigger and absent for Unknown,  *)
(* polarity() is p for CD and for ExternalTrigger and absent for Unknown,   *)
(* x() and y() are present for CD only.                                     *)
C24_AccessorsFollowVariant ==
    (fmt = "EVENT" /\ result.some) =>
        LET timed == input.k \in {"CD", "ExternalTrigger"}
            r == result.v
        IN  /\ r.fn = "timestamp" => r.v = (IF timed THEN Some(input.t) ELSE None)
            /\ r.fn = "polarity" => r.v = (IF timed THEN Some(input.p) ELSE None)
            /\ r.fn = "x" => r.v = (IF input.k = "CD" THEN Some(input.x) ELSE None)
            /\ r.fn = "y" => r.v = (IF input.k = "CD" THEN Some(input.y) ELSE None)


---------------------------------------------------------------------------
(* C26: the bit-range accessor law *)

(* (word >> lo) & ((1 << (hi - lo + 1)) - 1): bit i of the result is bit    *)
(* lo + i of the word for i <= hi - lo, and 0 above                         *)
RangeOfWord(i) ==
    [j \in 0..(i.w - 1) |->
        IF j <= i.hi - i.lo THEN Bit(i.word, i.lo + j) ELSE 0]

(* C26: for every width 16, 32 and 64, every word and every range           *)
(* 0 <= lo <= hi < width, the full width included, the extraction does not  *)
(* fail and gives (word >> lo) & ((1 << (hi - lo + 1)) - 1).                *)
C26_BitRangeLaw ==
    fmt = "BITS" =>
        /\ ~panicked
        /\ result.some => result.v = RangeOfWord(input)


---------------------------------------------------------------------------
(* C27: the words that leave the time alone *)

(* The step consumes a word of the stream that is neither EVT_TIME_HIGH nor *)
(* EVT_TIME_LOW: in the time base search, or from the chunk being decoded   *)
NonTimeWordStep ==
    /\ fmt = "EVT3"
    /\ \/ Decoding /\ WordType(CurWord) \notin {EVT_TIME_HIGH, EVT_TIME_LOW}
       \/ /\ ~Decoding /\ ~time_base.some /\ pos' = pos + 2
          /\ WordType((pos + 2) \div 2) \notin {EVT_TIME_HIGH, EVT_TIME_LOW}

(* C27: in EVT3 a word of any type other than EVT_TIME_HIGH and             *)
(* EVT_TIME_LOW, the unrecognised types included, leaves time, time_base    *)
(* and time_high_loop_nb as they were.                                      *)
C27_NonTimeWordsKeepTime ==
    [][NonTimeWordStep => UNCHANGED <<time, time_base, time_high_loop_nb>>]_vars

(* EVT_TIME_HIGH(1), EVT_TIME_LOW(16), EXT_TRIGGER and a word of type 1     *)
(* have all been decoded and the time is still 4096 + 16                    *)
C27_Witness ==
    /\ fmt = "EVT3" /\ ~Decoding /\ ~panicked
    /\ Len(stream) = 8 /\ pos = 8
    /\ WordType(2) = EVT_TIME_LOW
    /\ WordType(3) = EXT_TRIGGER
    /\ WordType(4) \notin Recognised
    /\ Len(Emitted) = 2 /\ Emitted[2].ev = Unknown
    /\ time = 4096 + 16
    /\ time_base = Some(4096)
    /\ time_high_loop_nb = 0

---------------------------------------------------------------------------
(* C30: the time after an EVT_TIME_HIGH *)

(* C30: in EVT3, once an EVT_TIME_HIGH word has been processed, the first   *)
(* of the stream or a later one, and until the next word is, time is the    *)
(* time base that word committed.                                           *)
C30_TimeIsBaseAfterTimeHigh ==
    (fmt = "EVT3" /\ DecodedEnd >= 2
       /\ WordType(DecodedEnd \div 2) = EVT_TIME_HIGH) =>
        /\ time_base.some
        /\ time = time_base.v


---------------------------------------------------------------------------
(* The header of the file under study, line by line *)

(* A file has been given to RawFileReader::new and new has returned *)
Opened == fmt \in {"FILE", "READER", "READER3"} /\ result.some

(* The header is terminated: the file exists and a byte follows the header *)
HeaderTerminated == input.exists /\ input.body # <<>>

(* The value of the last line of the header that gives key a value *)
HasValue(key) ==
    \E i \in 1..Len(input.header) :
        input.header[i].key = key /\ input.header[i].value.some

LastValue(key) ==
    LET i == MaxOf({j \in 1..Len(input.header) :
                       input.header[j].key = key /\ input.header[j].value.some})
    IN  input.header[i].value.v

HasFormatValue == HasValue(KeyFormat) \/ HasValue(KeyEvt)

(* The value of format when the header has one, otherwise the value of evt *)
FormatValue ==
    IF HasValue(KeyFormat) THEN LastValue(KeyFormat) ELSE LastValue(KeyEvt)

(* The part of a value before its first ';' *)
LeadingSegment(v) ==
    LET n == CHOOSE k \in 0..Len(v) :
                 /\ \A i \in 1..k : v[i] # SEMICOLON
                 /\ k = Len(v) \/ v[k + 1] = SEMICOLON
    IN  SubSeq(v, 1, n)

HeaderTag == LeadingSegment(FormatValue)

TableTags == {Tag20, TagEVT2, Tag21, TagEVT21, Tag30, TagEVT3, Tag40, TagEVT4}

---------------------------------------------------------------------------
(* C21: the dispatch table *)

(* C21: a file whose tag is "2.0" or "EVT2" opens with the EVT2 decoder,    *)
(* one whose tag is "2.1" or "EVT21" with the EVT2.1 decoder, one whose tag *)
(* is "3.0" or "EVT3" with the EVT3 decoder.                                *)
C21_DispatchTable ==
    (Opened /\ HeaderTerminated /\ HasFormatValue) =>
        /\ HeaderTag \in {Tag20, TagEVT2} => result.v = Ok("Evt2")
        /\ HeaderTag \in {Tag21, TagEVT21} => result.v = Ok("Evt21")
        /\ HeaderTag \in {Tag30, TagEVT3} => result.v = Ok("Evt3")

---------------------------------------------------------------------------
(* C22: the tag of a header *)

(* What new returns for a header whose tag is tag *)
DispatchOf(tag) ==
    LET t == EventTypeOfTag(tag)
    IN  IF ~t.ok THEN t
        ELSE IF t.v \in {"Evt21", "Evt3"} THEN t
        ELSE Err([kind |-> "DecoderNotImplemented", event_type |-> t.v])

(* C22: the tag a terminated header dispatches on is the value of its       *)
(* format key when a line gives that key a value, whatever evt says, and    *)
(* otherwise the value of evt; of a value that holds ';' only the part      *)
(* before the first ';' counts.                                             *)
C22_TagOfHeader ==
    (Opened /\ HeaderTerminated /\ HasFormatValue) =>
        result.v = DispatchOf(HeaderTag)

(* evt says 3.0, format says EVT21;endianness=...; the file has been read   *)
(* to its end as EVT2.1                                                     *)
C22_Witness ==
    /\ fmt = "READER"
    /\ input.header = <<KV(KeyEvt, Tag30), KV(KeyFormat, ValDecorated)>>
    /\ result = Some(Ok("Evt21"))
    /\ ret = None
    /\ Len(out) = 3

---------------------------------------------------------------------------
(* C23: the errors of open *)

(* C23: of a terminated header, one that gives neither evt nor format a     *)
(* value is refused with EventTypeNotFound, one whose tag is outside the    *)
(* table with UnknownEventType carrying that tag, one whose tag is "4.0"    *)
(* or "EVT4" with DecoderNotImplemented; and no error leaves a reader.      *)
C23_OpenErrors ==
    Opened =>
        /\ ~result.v.ok => fmt = "FILE" /\ stream = <<>> /\ out = <<>>
        /\ HeaderTerminated =>
              /\ ~HasFormatValue => result.v = Err([kind |-> "EventTypeNotFound"])
              /\ (HasFormatValue /\ HeaderTag \notin TableTags) =>
                    result.v = Err([kind |-> "UnknownEventType", tag |-> HeaderTag])
              /\ (HasFormatValue /\ HeaderTag \in {Tag40, TagEVT4}) =>
                    result.v = Err([kind |-> "DecoderNotImplemented",
                                    event_type |-> "Evt4"])

(* format says EVT4 over an evt of 2.1 *)
C23_Witness ==
    /\ Opened /\ HeaderTerminated
    /\ input.header = <<KV(KeyEvt, Tag21), KV(KeyFormat, TagEVT4)>>
    /\ result.v = Err([kind |-> "DecoderNotImplemented", event_type |-> "Evt4"])
    /\ fmt = "FILE"


---------------------------------------------------------------------------
(* C25: reset *)

(* The step is a call of reset() *)
ResetStep == Len(resets') = Len(resets) + 1

(* The reader as RawFileReader::new leaves it on the file: at the first     *)
(* byte after the header, nothing buffered, queued or returned, every       *)
(* decoder field at its initial value                                       *)
FreshReader ==
    /\ stream = input.body
    /\ pos = 0
    /\ buffer = <<>> /\ read_buffer_cursor = 0
    /\ evts = <<>> /\ idx = 0
    /\ event_queue = <<>>
    /\ time_high = None
    /\ time = 0 /\ time_base = None /\ time_high_loop_nb = 0
    /\ polarity = 0 /\ x = 0 /\ y = 0 /\ overflow_byte = None
    /\ out = <<>>
    /\ ~panicked

(* C25: reset() leaves the reader as a fresh open of the same file leaves   *)
(* it, whatever was consumed before, and the events read after it, up to    *)
(* None, are the whole sequence of the file.                                *)
C25_ResetIsReopen ==
    /\ [][ResetStep => (FreshReader' /\ fmt' = fmt /\ result' = result)]_vars
    /\ []((fmt = "READER" /\ ret = None) => out = WordByWord)

(* reset() was called with no event consumed, with some and with all of    *)
(* them, and the file has been read to None again                          *)
C25_Witness ==
    /\ fmt = "READER"
    /\ \E i, j, k \in 1..Len(resets) :
          /\ resets[i] = 0
          /\ 0 < resets[j] /\ resets[j] < Len(WordByWord)
          /\ resets[k] = Len(WordByWord)
    /\ ret = None
    /\ Len(out) = 3


---------------------------------------------------------------------------
(* C28: the size of the event queue *)

(* C28: the event queue never holds more than 4096 events, and bytes are    *)
(* read from the stream only when the queue is empty, so that one refill    *)
(* adds the events of at most one read buffer to an empty queue.            *)
C28_QueueWithinRing ==
    /\ [](Len(event_queue) <= 4096)
    /\ [][pos' > pos => event_queue = <<>>]_vars

(* A full buffer of 256 VECT_12 words with all 12 bits set has been decoded *)
(* on the full-buffer path: 3072 events are queued                          *)
C28_Witness ==
    /\ fmt = "EVT3" /\ ~Decoding
    /\ pos = 2 + READ_BUFFER_SIZE
    /\ Len(event_queue) = 12 * (READ_BUFFER_SIZE \div 2)
    /\ out = <<>>

---------------------------------------------------------------------------
(* C29: two instances on two streams *)

(* C29: with two instances on two streams and the running thread switched   *)
(* at any step, the events of the running instance, those returned followed *)
(* by those queued, are the first events of the word-by-word output of its  *)
(* own stream, its output at None is that whole output, and a step of one   *)
(* instance changes no field of the other: what each produces is what it    *)
(* produces alone.                                                          *)
C29_InstancesIndependent ==
    /\ [](parked.some => /\ IsPrefix(Emitted, WordByWord)
                         /\ ret = None => out = WordByWord)
    /\ [][parked' # parked => parked' = Some(Instance)]_vars

(* Both instances stopped in the middle of their iterations, each with      *)
(* events returned and events still queued, the running one an EVT3 decoder *)
(* with bytes of its stream still to read                                   *)
C29_Witness ==
    /\ parked.some
    /\ fmt = "EVT3" /\ pos < Len(stream)
    /\ ret.some /\ out # <<>> /\ event_queue # <<>>
    /\ parked.v.ret.some /\ parked.v.out # <<>> /\ parked.v.event_queue # <<>>

---------------------------------------------------------------------------
(* C31: the wrap test of EVT_TIME_HIGH *)

(* The step decodes an EVT_TIME_HIGH word that is not the first one *)
TimeHighStep == fmt = "EVT3" /\ Decoding /\ WordType(CurWord) = EVT_TIME_HIGH

(* (field << 12) + time_high_loop_nb * TIME_LOOP_DURATION_US *)
Candidate ==
    Field(CurWord, 0, 12) * 4096 + time_high_loop_nb * TIME_LOOP_DURATION_US

(* C31: on an EVT_TIME_HIGH word that is not the first one, when time_base  *)
(* is above the candidate by MAX_TIMESTAMP_BASE - LOOP_THRESHOLD or more    *)
(* time_high_loop_nb goes up by 1 and time_base becomes the candidate plus  *)
(* TIME_LOOP_DURATION_US; in every other case time_high_loop_nb stays and   *)
(* time_base becomes the candidate, also when that is below time_base.      *)
C31_WrapTest ==
    [][TimeHighStep =>
          IF /\ time_base.v > Candidate
             /\ time_base.v - Candidate >= MAX_TIMESTAMP_BASE - LOOP_THRESHOLD
          THEN /\ time_high_loop_nb' = time_high_loop_nb + 1
               /\ time_base' = Some(Candidate + TIME_LOOP_DURATION_US)
          ELSE /\ time_high_loop_nb' = time_high_loop_nb
               /\ time_base' = Some(Candidate)]_vars

(* EVT_TIME_HIGH 4095, 10, 2048, 10 read to the end: the second word wraps, *)
(* the fourth one takes the time base down without a wrap                   *)
C31_Witness ==
    /\ fmt = "EVT3"
    /\ stream = TH3(4095) \o TH3(10) \o TH3(2048) \o TH3(10)
    /\ ret = None
    /\ time_high_loop_nb = 1
    /\ time_base = Some(TIME_LOOP_DURATION_US + 10 * 4096)

---------------------------------------------------------------------------
(* C32: reads of any size *)

(* A read ends the accumulation: the bytes in the buffer start to be decoded *)
ChunkStarts == fmt \in {"EVT21", "READER"} /\ ~Decoding /\ evts' # <<>>

(* C32: in the EVT2.1 decoder and the framed reader, for reads of any       *)
(* sizes, the bytes read are decoded only once the buffer is full or the    *)
(* stream has ended; what is decoded is a run of whole words of the stream  *)
(* that starts where the last one ended, at a multiple of the word size;    *)
(* and the events returned up to None are the word-by-word output of the    *)
(* stream, each event from its own word.                                    *)
C32_ReadSplitsInvisible ==
    /\ [][ChunkStarts =>
            /\ Len(buffer) + (pos' - pos) = READ_BUFFER_SIZE \/ pos = Len(stream)
            /\ evts_at' = DecodedEnd
            /\ evts_at' + Len(evts') = pos' - ((pos' - evts_at') % 8)]_vars
    /\ [](fmt \in {"EVT21", "READER"} =>
            /\ Decoding =>
                  /\ evts_at % 8 = 0 /\ Len(evts) % 8 = 0
                  /\ evts = SubSeq(stream, evts_at + 1, evts_at + Len(evts))
            /\ ~Decoding => Len(buffer) = read_buffer_cursor
            /\ (ret = None /\ ~panicked) =>
                  /\ out = WordByWord
                  /\ DecodedEnd >= 8 * NumWords)

(* A stream longer than the buffer, with three bytes after its last word,   *)
(* read to its end by the framed reader: the last word, which lies past the *)
(* first full buffer, gave the last event                                   *)
C32_Witness ==
    /\ fmt = "READER"
    /\ Len(stream) > READ_BUFFER_SIZE /\ Len(stream) % 8 = 3
    /\ ret = None
    /\ Len(out) = NumWords - 1
    /\ out[Len(out)].o = 8 * NumWords

---------------------------------------------------------------------------
(* C33: time high fields that advance inside the guard band *)

(* By how much the field of the EVT_TIME_HIGH word k is past the field of   *)
(* the EVT_TIME_HIGH before it, modulo 4096                                 *)
FieldAdvance(k) ==
    (Field(k, 0, 12) + 4096 - Field(LatestTimeHigh(k), 0, 12)) % 4096

(* Every EVT_TIME_HIGH up to word k, the first one apart, advances the     *)
(* field by 10 or less                                                      *)
InGuardBand(k) ==
    \A j \in (FirstTimeHigh + 1)..k :
        WordType(j) = EVT_TIME_HIGH => FieldAdvance(j) <= 10

(* C33: when the field of every EVT_TIME_HIGH so far is past the field of   *)
(* the one before it by d modulo 4096 with 0 <= d <= 10, decoding such a    *)
(* word raises time_base by exactly d * 4096, also when the field rolls     *)
(* over, so time_base never goes down.                                      *)
C33_BaseFollowsBand ==
    [][(TimeHighStep /\ InGuardBand(CurWord)) =>
          /\ time_base'.v = time_base.v + FieldAdvance(CurWord) * 4096
          /\ time_base'.v >= time_base.v]_vars

(* Fields 4095, 9, 19: the field rolled over with d = 10, then advanced by  *)
(* 10 again                                                                 *)
C33_Witness ==
    /\ fmt = "EVT3"
    /\ stream = TH3(4095) \o TH3(9) \o TH3(19)
    /\ ret = None
    /\ time_high_loop_nb = 1
    /\ time_base = Some(TIME_LOOP_DURATION_US + 19 * 4096)

---------------------------------------------------------------------------
(* C34: the shape of the time base *)

(* The latest EVT_TIME_HIGH among the words processed so far *)
LatestProcessedTimeHigh == LatestTimeHigh((DecodedEnd \div 2) + 1)

(* C34: in EVT3, whenever the time base is set it is the field of the       *)
(* latest EVT_TIME_HIGH processed, shifted by 12, plus time_high_loop_nb    *)
(* times 2^24, so its 12 low bits are zero; and time_high_loop_nb never     *)
(* goes down and goes up by at most 1 in a step, which processes at most    *)
(* one word.                                                                *)
C34_BaseShape ==
    /\ []((fmt = "EVT3" /\ time_base.some) =>
            /\ time_base.v = Field(LatestProcessedTimeHigh, 0, 12) * 4096
                               + time_high_loop_nb * Pow2(24)
            /\ time_base.v % 4096 = 0)
    /\ [][/\ time_high_loop_nb' >= time_high_loop_nb
          /\ time_high_loop_nb' <= time_high_loop_nb + 1
          /\ time_high_loop_nb' # time_high_loop_nb => TimeHighStep]_vars

(* EVT_TIME_HIGH 4095, 10, 4095, 10 and EVT_TIME_LOW(1) read to the end:    *)
(* two wraps counted                                                        *)
C34_Witness ==
    /\ fmt = "EVT3"
    /\ stream = TH3(4095) \o TH3(10) \o TH3(4095) \o TH3(10) \o TL3(1)
    /\ ret = None
    /\ time_high_loop_nb = 2
    /\ time_base = Some(2 * Pow2(24) + 10 * 4096)
    /\ time = 2 * Pow2(24) + 10 * 4096 + 1

---------------------------------------------------------------------------
(* C35: the two decode paths of EVT3 *)

(* What the word path does with the word under decode, from the fields as   *)
(* they are                                                                 *)
WordPathResult == Evt3Decode(Evt3State, Word3(CurWord), FALSE)

(* C35: in EVT3 every word decoded, in a full 512-byte buffer or in a       *)
(* shorter chunk, pushes the events the word path pushes for it from the    *)
(* same fields, in the same order, and leaves the fields as the word path   *)
(* leaves them.                                                             *)
C35_PathsAgree ==
    [][(fmt = "EVT3" /\ Decoding) =>
          /\ event_queue' = event_queue \o Tagged(2 * CurWord, WordPathResult.ev)
          /\ <<time', time_base', time_high_loop_nb', polarity', x', y'>>
               = <<WordPathResult.s.time, WordPathResult.s.time_base,
                   WordPathResult.s.time_high_loop_nb,
                   WordPathResult.s.polarity, WordPathResult.s.x,
                   WordPathResult.s.y>>]_vars

---------------------------------------------------------------------------
(* C36: the width of the vector cursor *)

(* The step puts a VECT_12 or VECT_8 word through the match *)
VectWordStep ==
    /\ fmt = "MATCH" /\ time_base.some /\ input'.some
    /\ Evt3_event_type(input'.v) \in {VECT_12, VECT_8}

(* C36: in EVT3, for a VECT_12 or VECT_8 word after any sequence of words,  *)
(* the cursor plus the size of the vector is 65535 or less, the call does   *)
(* not fail, and the x of every CD the word gives is 65535 or less.         *)
C36_CursorFitsU16 ==
    [][VectWordStep =>
          /\ x + (IF Evt3_event_type(input'.v) = VECT_12 THEN 12 ELSE 8) <= 65535
          /\ ~panicked'
          /\ \A i \in 1..Len(result'.v) : result'.v[i].x <= 65535]_vars

---------------------------------------------------------------------------
(* C37: successive read_events() calls *)

(* C37: however many sequences read_events() has returned and however many  *)
(* events were taken through each, the events returned so far are the first *)
(* events of the word-by-word output of the stream, in its order, the       *)
(* events queued are the ones that follow them, and read_events() itself    *)
(* neither returns nor drops an event.                                      *)
C37_OneForwardPass ==
    /\ []((fmt = "READER" /\ handles # <<>>) =>
            /\ IsPrefix(Emitted, WordByWord)
            /\ ret = None => out = WordByWord)
    /\ [][handles' # handles => UNCHANGED <<out, event_queue, pos>>]_vars

(* One event was taken through the first sequence, the second sequence was  *)
(* asked for while two events were queued, and both were taken through it,  *)
(* up to the end of the stream                                              *)
C37_Witness ==
    /\ fmt = "READER"
    /\ Len(handles) = 2
    /\ handles[1].returned = 0
    /\ handles[2].returned = 1 /\ handles[2].queued = 2
    /\ ret = None
    /\ Len(out) = 3

---------------------------------------------------------------------------
(* C38: slices by time *)

HasTimestamp(e) == Event_timestamp(e).some

(* C38: with SliceBy::Time(d), once the slices are exhausted their          *)
(* concatenation is the input events that have a timestamp, in order; and   *)
(* every slice yielded holds only events with a timestamp in [t0, t0 + d),  *)
(* t0 the timestamp of its first event.                                     *)
C38_TimeSlicesLoseNothing ==
    (fmt = "SLICE" /\ input.slice_by.kind = "Time") =>
        /\ result.done =>
              Flatten(result.slices) = SelectSeq(input.events, HasTimestamp)
        /\ \A i \in 1..Len(result.slices) :
              \A j \in 1..Len(result.slices[i]) :
                  /\ HasTimestamp(result.slices[i][j])
                  /\ Event_timestamp(result.slices[i][j]).v
                       >= Event_timestamp(result.slices[i][1]).v
                  /\ Event_timestamp(result.slices[i][j]).v
                       < Event_timestamp(result.slices[i][1]).v + input.slice_by.micros

---------------------------------------------------------------------------
(* C39: a file that ends with its header *)

(* C39: a file made of a header whose tag is one a decoder exists for       *)
(* (2.1, EVT21, 3.0, EVT3) and of no byte after it opens, and no event is   *)
(* ever returned from it.                                                   *)
C39_HeaderOnlyFileOpens ==
    (/\ fmt \in {"FILE", "READER", "READER3"} /\ result.some
     /\ input.exists /\ input.body = <<>>
     /\ HasFormatValue /\ HeaderTag \in {Tag21, TagEVT21, Tag30, TagEVT3}) =>
        /\ result.v.ok
        /\ out = <<>>

=============================================================================
